---- MODULE Spec2Model ----
(***************************************************************************)
(* Verification model of paper-valuation: the layout segmentation engine   *)
(* (label recognition, span building, word-to-cell assignment, per-page    *)
(* segmentation) and the multi-page merger.                                *)
(*                                                                         *)
(* Text is a sequence of one-character strings, a Python dict is a         *)
(* sequence of [label, text] records in insertion order, None and the      *)
(* empty string are the empty sequence (both are falsy in the source).     *)
(***************************************************************************)
EXTENDS Integers, Sequences, FiniteSets, TLC

VARIABLES
    mpc,              \* position of evaluate_paper_individual: collect / merge / done
    input_pages,      \* the page answer maps as they were handed to the merger
    all_pages_list,   \* the same list as the merger sees (and mutates) it
    page_index,       \* number of pages already merged
    merged_answers,   \* merge_multi_page_result.merged_answers
    last_q_label,     \* merge_multi_page_result.last_q_label
    merge_result,     \* the "answers" map returned by merge_multi_page_result
    lbl_pc,           \* label recognizer: input / done
    lbl_text,         \* the word text handed to parse_question_label
    lbl_result,       \* what parse_question_label returned
    sp_pc,            \* span builder: input / done
    row_to_qnum,      \* {row: question number} handed to build_question_spans
    total_rows,       \* number of rows of the sheet
    spans,            \* the list build_question_spans returned
    cl_pc,            \* word-to-cell assigner: input / done
    geometry,         \* the SheetGeometry of the page
    cl_words,         \* word_data handed to assign_words_to_cells
    cl_cells,         \* the list of cells it returned
    fl_pc,            \* label search: input / done
    fl_words,         \* word_data handed to find_all_question_labels
    found_labels,     \* the list it returned
    seg_pc,           \* page segmentation: input, or the path that produced the result
    seg_tokens,       \* the words of the page in OCR order: text and break after it
    seg_config,       \* the config dict
    seg_answers,      \* result['answers'] of the path taken
    seg_validation,   \* the sequence report of the result of the path taken
    rc_pc,            \* answer reconstruction: input, or the algorithm that produced the text
    rc_tokens,        \* the words of the answer in OCR order
    rc_text,          \* the reconstructed text
    mk_pc,            \* mark curve: input / done
    mk_threshold,     \* threshold of calculate_marks, in hundredths
    mk_max_mark,      \* max_mark of calculate_marks, a fraction
    mk_low,           \* the lower of two similarities, in twentieths
    mk_high,          \* the higher of the two
    mk_mark_low,      \* calculate_marks of the lower similarity, in half points
    mk_mark_high,     \* calculate_marks of the higher similarity
    lv_pc,            \* long valuation: holistic / split / points / done / raised
    lv_total,         \* total_question_mark
    lv_key_points,    \* len(teacher_key_point)
    lv_paragraphs,    \* len(student_paragraph)
    lv_long_paragraph,\* whether a paragraph is above 300 characters
    lv_holistic,      \* holistic_result['total_mark_scored'], in half points
    lv_i,             \* index of the key point being scored
    lv_j,             \* index of the paragraph being compared
    lv_best,          \* best_score_key_point, in twentieths
    lv_obtained,      \* total_mark_obtained, in half points
    lv_final,         \* final_score, in half points
    ev_pc,            \* "idle", "evaluating" or "done"
    ev_exam,          \* the exam record: question_types, question_marks, teacher_answers, or_groups
    ev_answers,       \* the labels of student_answers, in the order of the dict
    ev_scores,        \* run -> the marks the answers got, None for a skipped answer
    ev_i,             \* number of answers evaluated
    ev_g,             \* number of OR groups processed
    ev_runs,          \* run -> or_group_scores, marks_breakdown and the two totals
    ak_pc,            \* where save_answer_key_util is
    ak_data,          \* the form fields sent
    ak_store,         \* the exams of the answer-key file
    ak_result,        \* the result returned
    st_file,          \* the answer-key file: exam id -> roll number -> submission
    st_caller         \* per caller: operation, arguments, loaded copy, result

mergeVars == <<mpc, input_pages, all_pages_list, page_index, merged_answers,
               last_q_label, merge_result>>

labelVars == <<lbl_pc, lbl_text, lbl_result>>

spanVars == <<sp_pc, row_to_qnum, total_rows, spans>>

cellVars == <<cl_pc, geometry, cl_words, cl_cells>>

findVars == <<fl_pc, fl_words, found_labels>>

segVars == <<seg_pc, seg_tokens, seg_config, seg_answers, seg_validation>>

reconVars == <<rc_pc, rc_tokens, rc_text>>

marksVars == <<mk_pc, mk_threshold, mk_max_mark, mk_low, mk_high, mk_mark_low, mk_mark_high>>

longVars == <<lv_pc, lv_total, lv_key_points, lv_paragraphs, lv_long_paragraph, lv_holistic, lv_i, lv_j, lv_best, lv_obtained, lv_final>>

evalVars == <<ev_pc, ev_exam, ev_answers, ev_scores, ev_i, ev_g, ev_runs>>

keyVars == <<ak_pc, ak_data, ak_store, ak_result>>

storeVars == <<st_file, st_caller>>

vars == <<mergeVars, labelVars, spanVars, cellVars, findVars, segVars, reconVars, marksVars, longVars, evalVars, keyVars, storeVars>>

notMergeVars == <<labelVars, spanVars, cellVars, findVars, segVars, reconVars, marksVars, longVars, evalVars, keyVars, storeVars>>

notLabelVars == <<mergeVars, spanVars, cellVars, findVars, segVars, reconVars, marksVars, longVars, evalVars, keyVars, storeVars>>

notSpanVars == <<mergeVars, labelVars, cellVars, findVars, segVars, reconVars, marksVars, longVars, evalVars, keyVars, storeVars>>

notCellVars == <<mergeVars, labelVars, spanVars, findVars, segVars, reconVars, marksVars, longVars, evalVars, keyVars, storeVars>>

notFindVars == <<mergeVars, labelVars, spanVars, cellVars, segVars, reconVars, marksVars, longVars, evalVars, keyVars, storeVars>>

notSegVars == <<mergeVars, labelVars, spanVars, cellVars, findVars, reconVars, marksVars, longVars, evalVars, keyVars, storeVars>>

notReconVars == <<mergeVars, labelVars, spanVars, cellVars, findVars, segVars, marksVars, longVars, evalVars, keyVars, storeVars>>

notMarksVars == <<mergeVars, labelVars, spanVars, cellVars, findVars, segVars, reconVars, longVars, evalVars, keyVars, storeVars>>

notLongVars == <<mergeVars, labelVars, spanVars, cellVars, findVars, segVars, reconVars, marksVars, evalVars, keyVars, storeVars>>

notEvalVars == <<mergeVars, labelVars, spanVars, cellVars, findVars, segVars, reconVars, marksVars, longVars, keyVars, storeVars>>

notKeyVars == <<mergeVars, labelVars, spanVars, cellVars, findVars, segVars, reconVars, marksVars, longVars, evalVars, storeVars>>

notStoreVars == <<mergeVars, labelVars, spanVars, cellVars, findVars, segVars, reconVars, marksVars, longVars, evalVars, keyVars>>

(***************************************************************************)
(* Bounds                                                                  *)
(***************************************************************************)
MaxPages == 2
MaxEntries == 2
MaxWordLen == 3
MaxRows == 4
MaxQNum == 3
MaxCoord == 3
MaxLabelWords == 2
MaxWords == 4
MaxAnswerWords == 3
MaxTotalMark == 5
MaxKeyPoints == 3
MaxMarkLen == 3

MaxCalls == 3

MaxStoreMark == 2

MaxQuestionMark == 2

(***************************************************************************)
(* Characters and text                                                     *)
(***************************************************************************)
Digits == {"0", "1", "2", "3", "4", "5", "6", "7", "8", "9"}

Whitespace == {" ", "\n"}

DigitVal(c) ==
    CASE c = "0" -> 0 [] c = "1" -> 1 [] c = "2" -> 2 [] c = "3" -> 3
      [] c = "4" -> 4 [] c = "5" -> 5 [] c = "6" -> 6 [] c = "7" -> 7
      [] c = "8" -> 8 [] c = "9" -> 9

RECURSIVE LStrip(_)
LStrip(t) ==
    IF t # <<>> /\ Head(t) \in Whitespace THEN LStrip(Tail(t)) ELSE t

RECURSIVE RStrip(_)
RStrip(t) ==
    IF t # <<>> /\ t[Len(t)] \in Whitespace
    THEN RStrip(SubSeq(t, 1, Len(t) - 1))
    ELSE t

\* str.strip()
Strip(t) == RStrip(LStrip(t))

\* int() of a run of decimal digits
RECURSIVE IntOfDigits(_)
IntOfDigits(ds) ==
    IF ds = <<>> THEN 0
    ELSE 10 * IntOfDigits(SubSeq(ds, 1, Len(ds) - 1)) + DigitVal(ds[Len(ds)])

\* the longest run of digits at the start of t (what \d+ consumes)
RECURSIVE DigitRun(_)
DigitRun(t) ==
    IF t # <<>> /\ Head(t) \in Digits THEN <<Head(t)>> \o DigitRun(Tail(t)) ELSE <<>>

\* re.search(r'\d+', t).group(): the first maximal run of digits, <<>> when none
RECURSIVE FirstDigitRun(_)
FirstDigitRun(t) ==
    IF t = <<>> THEN <<>>
    ELSE IF Head(t) \in Digits THEN DigitRun(t)
    ELSE FirstDigitRun(Tail(t))

\* str(n) for n >= 0, as in f'Q{q_num}'
RECURSIVE Decimal(_)
Decimal(n) ==
    LET d == CHOOSE c \in Digits : DigitVal(c) = n % 10
    IN  IF n < 10 THEN <<d>> ELSE Append(Decimal(n \div 10), d)

(***************************************************************************)
(* Python dict as an insertion-ordered sequence of entries                 *)
(***************************************************************************)
DictKeys(d) == {d[i].label : i \in 1..Len(d)}

DictHas(d, k) == \E i \in 1..Len(d) : d[i].label = k

DictGet(d, k) == d[CHOOSE i \in 1..Len(d) : d[i].label = k].text

\* d[k] = v : replaces in place, or appends a new key at the end
DictSet(d, k, v) ==
    IF DictHas(d, k)
    THEN [i \in 1..Len(d) |-> IF d[i].label = k THEN [label |-> k, text |-> v] ELSE d[i]]
    ELSE Append(d, [label |-> k, text |-> v])

\* d without key k
DictDel(d, k) == SelectSeq(d, LAMBDA e : e.label # k)

(***************************************************************************)
(* Labels                                                                  *)
(***************************************************************************)
UNLABELED_CONTINUATION ==
    <<"U", "N", "L", "A", "B", "E", "L", "E", "D", "_",
      "C", "O", "N", "T", "I", "N", "U", "A", "T", "I", "O", "N">>

Q1 == <<"Q", "1">>

Q2 == <<"Q", "2">>

Q10 == <<"Q", "1", "0">>

NoLabel == <<>>

\* the question labels a page answer map can carry
PageLabels == {Q1, Q2, Q10}

\* the answer texts a page can carry (with and without surrounding blanks)
PageTexts == {<<"a">>, <<" ", "b", " ">>}

\* sequences of at most n page labels
RECURSIVE LabelSeqs(_)
LabelSeqs(n) ==
    IF n = 0 THEN {<<>>}
    ELSE LET shorter == LabelSeqs(n - 1)
         IN  shorter \cup
             {Append(s, l) : s \in {x \in shorter : Len(x) = n - 1},
                             l \in PageLabels}

DistinctLabelSeqs == {s \in LabelSeqs(MaxEntries) :
                        \A i, j \in 1..Len(s) : i # j => s[i] # s[j]}

\* a page with question labels: at most MaxEntries entries, in any order
LabelledPages ==
    UNION {{[i \in 1..Len(ls) |-> [label |-> ls[i], text |-> ts[i]]] :
              ts \in [1..Len(ls) -> PageTexts]} : ls \in DistinctLabelSeqs}

\* a page without any label: its whole text under UNLABELED_CONTINUATION
UnlabeledPages ==
    {<<[label |-> UNLABELED_CONTINUATION, text |-> t]>> : t \in PageTexts}

\* the answer maps segmentation hands to the merger
PageAnswerMaps == LabelledPages \cup UnlabeledPages

(***************************************************************************)
(* Multi-page merger: merge_multi_page_result                              *)
(***************************************************************************)
\* sort key of the final ordering: the first number embedded in the label, else 0
LabelSortKey(label) ==
    IF FirstDigitRun(label) = <<>> THEN 0 ELSE IntOfDigits(FirstDigitRun(label))

\* insert entry e into a sequence sorted by key, behind the entries of equal key
RECURSIVE InsertByKey(_, _)
InsertByKey(sorted, e) ==
    IF sorted = <<>> THEN <<e>>
    ELSE IF LabelSortKey(Head(sorted).label) <= LabelSortKey(e.label)
         THEN <<Head(sorted)>> \o InsertByKey(Tail(sorted), e)
         ELSE <<e>> \o sorted

RECURSIVE StableSortByKey(_)
StableSortByKey(d) ==
    IF d = <<>> THEN <<>>
    ELSE InsertByKey(StableSortByKey(SubSeq(d, 1, Len(d) - 1)), d[Len(d)])

SortedAnswersUnsorted(merged) == merged

\* dict(sorted(merged_answers.items(), key=...)) : sorted() is stable
SortedAnswers(merged) == StableSortByKey(merged)

MergeLabelledOverwrite(merged, label, text) == DictSet(merged, label, Strip(text))

\* body of the loop over the labelled entries of one page
MergeLabelled(merged, label, text) ==
    IF DictHas(merged, label)
    THEN DictSet(merged, label, DictGet(merged, label) \o <<" ">> \o Strip(text))
    ELSE DictSet(merged, label, Strip(text))

MergeUnlabeledNoLast(merged, last, text) ==
    IF last # NoLabel /\ DictHas(merged, last)
    THEN [merged |-> DictSet(merged, last, DictGet(merged, last) \o <<" ">> \o Strip(text)),
          last |-> last]
    ELSE [merged |-> DictSet(merged, Q1, Strip(text)), last |-> last]

\* the UNLABELED_CONTINUATION branch: returns the new merged_answers and last_q_label
MergeUnlabeled(merged, last, text) ==
    IF last # NoLabel /\ DictHas(merged, last)
    THEN [merged |-> DictSet(merged, last, DictGet(merged, last) \o <<" ">> \o Strip(text)),
          last |-> last]
    ELSE [merged |-> IF DictHas(merged, Q1)
                     THEN DictSet(merged, Q1, Strip(text) \o <<" ">> \o DictGet(merged, Q1))
                     ELSE DictSet(merged, Q1, Strip(text)),
          last |-> Q1]

\* for q_label, text in answers.items(): ... last_q_label = q_label
RECURSIVE MergeEntries(_, _)
MergeEntries(st, answers) ==
    IF answers = <<>> THEN st
    ELSE MergeEntries([merged |-> MergeLabelled(st.merged, Head(answers).label,
                                                Head(answers).text),
                       last |-> Head(answers).label],
                      Tail(answers))

\* answers.pop('UNLABELED_CONTINUATION') : the page's own map loses the entry
PopUnlabeled(answers) == DictDel(answers, UNLABELED_CONTINUATION)

\* one iteration of the loop over all_pages_list
MergeOnePage(merged, last, answers) ==
    IF DictHas(answers, UNLABELED_CONTINUATION)
    THEN MergeEntries(MergeUnlabeled(merged, last,
                                     DictGet(answers, UNLABELED_CONTINUATION)),
                      PopUnlabeled(answers))
    ELSE MergeEntries([merged |-> merged, last |-> last], answers)

\* the state before the pages of a paper are received; the merger takes no
\* step when another component is the one under study
MergeStart(active) ==
    /\ mpc = IF active THEN "collect" ELSE "idle"
    /\ input_pages = <<>>
    /\ all_pages_list = <<>>
    /\ page_index = 0
    /\ merged_answers = <<>>
    /\ last_q_label = NoLabel
    /\ merge_result = <<>>

\* evaluate_paper_individual: one more page result is appended to the list
ReceivePage ==
    /\ mpc = "collect"
    /\ Len(all_pages_list) < MaxPages
    /\ \E answers \in PageAnswerMaps :
          /\ all_pages_list' = Append(all_pages_list, answers)
          /\ input_pages' = Append(input_pages, answers)
    /\ UNCHANGED <<mpc, page_index, merged_answers, last_q_label, merge_result>>
    /\ UNCHANGED notMergeVars

\* merge_multi_page_result is called on the collected list
StartMerge ==
    /\ mpc = "collect"
    /\ mpc' = "merge"
    /\ page_index' = 0
    /\ merged_answers' = <<>>
    /\ last_q_label' = NoLabel
    /\ UNCHANGED <<input_pages, all_pages_list, merge_result>>
    /\ UNCHANGED notMergeVars

\* one iteration of "for page_index, page in enumerate(all_pages_list)"
MergePage ==
    /\ mpc = "merge"
    /\ page_index < Len(all_pages_list)
    /\ LET answers == all_pages_list[page_index + 1]
           st == MergeOnePage(merged_answers, last_q_label, answers)
       IN  /\ merged_answers' = st.merged
           /\ last_q_label' = st.last
           /\ all_pages_list' = [all_pages_list EXCEPT ![page_index + 1] =
                                     PopUnlabeled(answers)]
    /\ page_index' = page_index + 1
    /\ UNCHANGED <<mpc, input_pages, merge_result>>
    /\ UNCHANGED notMergeVars

\* after the loop: sort by embedded number and return
MergeFinish ==
    /\ mpc = "merge"
    /\ page_index = Len(all_pages_list)
    /\ merge_result' = SortedAnswers(merged_answers)
    /\ mpc' = "done"
    /\ UNCHANGED <<input_pages, all_pages_list, page_index, merged_answers, last_q_label>>
    /\ UNCHANGED notMergeVars

NextMerge == ReceivePage \/ StartMerge \/ MergePage \/ MergeFinish

(***************************************************************************)
(* Question-label recognizer: parse_question_label (geometry path)         *)
(***************************************************************************)
None == -1

\* the characters words are made of
WordAlphabet == {"Q", "q", "O", "0", "1", "5", "x", ":", ".", " "}

\* all texts of exactly n characters
RECURSIVE TextsOfLen(_)
TextsOfLen(n) ==
    IF n = 0 THEN {<<>>}
    ELSE {Append(t, c) : t \in TextsOfLen(n - 1), c \in WordAlphabet}

\* the examples of the docstring and of the specification
LabelExamples ==
    {<<"Q", "1">>, <<"q", "7">>, <<"Q", "1", "2">>, <<"O", "3">>, <<"0", "1">>,
     <<"1">>, <<"1", ":">>, <<"1", ".">>, <<"1", "2", "x">>, <<"Q", "0">>,
     <<"Q", "5", "1">>, <<"Q", "5", "0">>, <<" ", "Q", "2", " ">>}

LabelWords == LabelExamples \cup UNION {TextsOfLen(n) : n \in 0..MaxWordLen}

AllDigits(t) == \A i \in 1..Len(t) : t[i] \in Digits

\* _LABEL_PATTERN = ^[Qq0O](\d+)$ : the text of group 1, <<>> when there is no match
LabelPatternGroup(t) ==
    IF Len(t) >= 2 /\ t[1] \in {"Q", "q", "0", "O"} /\ AllDigits(Tail(t))
    THEN Tail(t) ELSE <<>>

parse_question_label_no_range(text) ==
    LET g == LabelPatternGroup(Strip(text))
    IN  IF g # <<>> THEN IntOfDigits(g) ELSE None

parse_question_label(text) ==
    LET g == LabelPatternGroup(Strip(text))
    IN  IF g # <<>> /\ 1 <= IntOfDigits(g) /\ IntOfDigits(g) <= 50
        THEN IntOfDigits(g)
        ELSE None

LabelStart(active) ==
    /\ lbl_pc = IF active THEN "input" ELSE "idle"
    /\ lbl_text \in IF active THEN LabelWords ELSE {<<>>}
    /\ lbl_result = None

\* parse_question_label(text) is called on the word
ParseLabel ==
    /\ lbl_pc = "input"
    /\ lbl_result' = parse_question_label(lbl_text)
    /\ lbl_pc' = "done"
    /\ UNCHANGED lbl_text
    /\ UNCHANGED notLabelVars

NextLabel == ParseLabel

(***************************************************************************)
(* Regular-expression and text helpers of the heuristic path               *)
(***************************************************************************)
\* text without its first n characters
DropFirst(t, n) == SubSeq(t, n + 1, Len(t))

\* an optional leading character of the given class is consumed when present
SkipOptional(t, class) == IF t # <<>> /\ Head(t) \in class THEN Tail(t) ELSE t

\* re.sub(r' +', ' ', t)
RECURSIVE CollapseSpaces(_)
CollapseSpaces(t) ==
    IF t = <<>> THEN <<>>
    ELSE IF Head(t) = " " /\ Len(t) >= 2 /\ t[2] = " " THEN CollapseSpaces(Tail(t))
    ELSE <<Head(t)>> \o CollapseSpaces(Tail(t))

\* the number of newline characters t starts with
RECURSIVE NewlineRun(_)
NewlineRun(t) == IF t # <<>> /\ Head(t) = "\n" THEN 1 + NewlineRun(Tail(t)) ELSE 0

\* re.sub(r'\n{3,}', '\n\n', t)
RECURSIVE CollapseNewlines(_)
CollapseNewlines(t) ==
    IF t = <<>> THEN <<>>
    ELSE IF NewlineRun(t) >= 3
         THEN <<"\n", "\n">> \o CollapseNewlines(DropFirst(t, NewlineRun(t)))
         ELSE IF NewlineRun(t) >= 1
              THEN SubSeq(t, 1, NewlineRun(t)) \o CollapseNewlines(DropFirst(t, NewlineRun(t)))
              ELSE <<Head(t)>> \o CollapseNewlines(Tail(t))

\* the number of blanks t starts with
RECURSIVE SpaceRun(_)
SpaceRun(t) == IF t # <<>> /\ Head(t) = " " THEN 1 + SpaceRun(Tail(t)) ELSE 0

\* re.sub(r' +\n', '\n', t)
RECURSIVE DropSpacesBeforeNewline(_)
DropSpacesBeforeNewline(t) ==
    IF t = <<>> THEN <<>>
    ELSE IF SpaceRun(t) >= 1 /\ Len(t) > SpaceRun(t) /\ t[SpaceRun(t) + 1] = "\n"
         THEN DropSpacesBeforeNewline(DropFirst(t, SpaceRun(t)))
         ELSE <<Head(t)>> \o DropSpacesBeforeNewline(Tail(t))

\* re.sub(r'\n +', '\n', t)
RECURSIVE DropSpacesAfterNewline(_)
DropSpacesAfterNewline(t) ==
    IF t = <<>> THEN <<>>
    ELSE IF Head(t) = "\n"
         THEN <<"\n">> \o DropSpacesAfterNewline(DropFirst(Tail(t), SpaceRun(Tail(t))))
         ELSE <<Head(t)>> \o DropSpacesAfterNewline(Tail(t))

\* ''.join(parts)
RECURSIVE Concat(_)
Concat(parts) == IF parts = <<>> THEN <<>> ELSE Head(parts) \o Concat(Tail(parts))

LabelPrefixChars == {"Q", "q", "@"}

LabelDelimiters == {":", ".", ")"}

\* group 1 of ^[Qq@]?\s*(\d+)\s*[:\.\)] on t, and what follows the delimiter;
\* group = <<>> when the pattern does not match
DelimitedLabelMatch(t) ==
    LET a == LStrip(SkipOptional(t, LabelPrefixChars))
        ds == DigitRun(a)
        rest == LStrip(DropFirst(a, Len(ds)))
    IN  IF ds # <<>> /\ rest # <<>> /\ Head(rest) \in LabelDelimiters
        THEN [group |-> ds, after |-> Tail(rest)]
        ELSE [group |-> <<>>, after |-> <<>>]

\* the four patterns of is_question_label, in order: group 1 of each on t
LabelPatternGroups(t) ==
    <<IF LStrip(DelimitedLabelMatch(t).after) = <<>>
      THEN DelimitedLabelMatch(t).group ELSE <<>>,
      DelimitedLabelMatch(t).group,
      IF Len(t) >= 2 /\ Head(t) \in LabelPrefixChars /\ AllDigits(Tail(t))
      THEN Tail(t) ELSE <<>>,
      IF t # <<>> /\ AllDigits(t) THEN t ELSE <<>>>>

\* is_question_label: the first pattern that matches with a number in 1..50
is_question_label(text) ==
    LET groups == LabelPatternGroups(Strip(text))
        hits == {k \in 1..Len(groups) :
                    /\ groups[k] # <<>>
                    /\ 1 <= IntOfDigits(groups[k])
                    /\ IntOfDigits(groups[k]) <= 50}
    IN  IF hits = {} THEN None
        ELSE IntOfDigits(groups[CHOOSE k \in hits : \A j \in hits : k <= j])

StartsWith(t, p) == Len(t) >= Len(p) /\ SubSeq(t, 1, Len(p)) = p

\* re.sub(^<prefix class>?\s*<q>\s*[:\.\)]?\s*, '', t, count=1): the match is
\* removed from the start of t, t is returned unchanged when there is none
StripLabelPrefix(t, q, class) ==
    LET a == LStrip(SkipOptional(t, class))
    IN  IF StartsWith(a, Decimal(q))
        THEN LStrip(SkipOptional(LStrip(DropFirst(a, Len(Decimal(q)))), LabelDelimiters))
        ELSE t

\* str.lstrip(' :.-_°)]}#@')
RECURSIVE LStripChars(_, _)
LStripChars(t, chars) ==
    IF t # <<>> /\ Head(t) \in chars THEN LStripChars(Tail(t), chars) ELSE t

\* clean_answer_text (flags=re.IGNORECASE changes nothing for these classes)
clean_answer_text(text, q) ==
    LET a == StripLabelPrefix(text, q, LabelPrefixChars)
        b == StripLabelPrefix(a, q, {})
    IN  Strip(LStripChars(b, {" ", ":", ".", "-", "_", "DEGREE", ")", "]", "}", "#", "@"}))

(***************************************************************************)
(* Heuristic path: answer reconstruction (enhanced_vision_segmentation.py) *)
(* List indices are 0-based as in the source: words[i] is word_data[i+1].  *)
(***************************************************************************)
\* the DetectedBreak types that end a line
LineBreakTypes == {"LINE_BREAK", "EOL_SURE_SPACE"}

\* extract_word_level_data: has_space_after of a break type
HasSpaceAfter(break_type) == break_type \in {"SPACE", "EOL_SURE_SPACE", "LINE_BREAK"}

\* BULLET_MARKERS; characters outside ASCII are written by their code point
BULLET_MARKERS ==
    {"U+2022", "U+25CF", "U+25CB", "-", "*", "U+2192", "U+25B8", ">", "U+25A0",
     "U+25A1", "U+25AA", "U+25C6", "U+25C7", "U+25BA", "U+00BB", "U+2013", "U+2014"}

\* words[a:b] for 0 <= a
Slice(words, a, b) ==
    IF a >= b \/ a >= Len(words) THEN <<>>
    ELSE SubSeq(words, a + 1, IF b < Len(words) THEN b ELSE Len(words))

Min2(a, b) == IF a < b THEN a ELSE b

\* a list of integers sorted ascending (list.sort())
RECURSIVE SortInts(_)
SortInts(xs) ==
    IF xs = <<>> THEN <<>>
    ELSE LET k == CHOOSE i \in 1..Len(xs) : \A j \in 1..Len(xs) : xs[i] <= xs[j]
         IN  <<xs[k]>> \o SortInts(SubSeq(xs, 1, k - 1) \o SubSeq(xs, k + 1, Len(xs)))

\* calculate_average_line_height: the median of the word heights above 5, else 40
calculate_average_line_height(words) ==
    LET hs == SelectSeq([i \in 1..Len(words) |-> words[i].max_y - words[i].y],
                        LAMBDA h : h > 5)
    IN  IF hs = <<>> THEN 40 ELSE SortInts(hs)[(Len(hs) \div 2) + 1]

\* the 10px buckets of calculate_dominant_x_position, in dict order: each group
\* is [key, xs]; a word joins the first group whose key is less than 10 away
RECURSIVE XGroups(_)
XGroups(words) ==
    IF words = <<>> THEN <<>>
    ELSE LET groups == XGroups(SubSeq(words, 1, Len(words) - 1))
             x == words[Len(words)].x
             near == {g \in 1..Len(groups) :
                         (IF x >= groups[g].key THEN x - groups[g].key
                          ELSE groups[g].key - x) < 10}
         IN  IF near = {} THEN Append(groups, [key |-> x, xs |-> <<x>>])
             ELSE LET g == CHOOSE i \in near : \A j \in near : i <= j
                  IN  [groups EXCEPT ![g].xs = Append(@, x)]

RECURSIVE SumSeq(_)
SumSeq(xs) == IF xs = <<>> THEN 0 ELSE Head(xs) + SumSeq(Tail(xs))

\* calculate_dominant_x_position: the mean of the largest group (the first of
\* the largest ones), as the fraction sum / n; 0 / 1 when there is no word
calculate_dominant_x_position(words) ==
    LET groups == XGroups(words)
    IN  IF groups = <<>> THEN [sum |-> 0, n |-> 1]
        ELSE LET big == {g \in 1..Len(groups) :
                            \A h \in 1..Len(groups) : Len(groups[g].xs) >= Len(groups[h].xs)}
                 g == CHOOSE i \in big : \A j \in big : i <= j
             IN  [sum |-> SumSeq(groups[g].xs), n |-> Len(groups[g].xs)]

Abs(n) == IF n < 0 THEN 0 - n ELSE n

EndsSentence(t) ==
    /\ RStrip(t) # <<>>
    /\ RStrip(t)[Len(RStrip(t))] \in {".", "!", "?", ":"}

\* variant: a sentence end breaks the paragraph whatever the gap
detect_paragraph_boundary_any_sentence_end(current_word, next_word, avg_line_height, dominant_x) ==
    LET y_gap == next_word.y - current_word.max_y
        is_bullet == \/ (Len(Strip(next_word.text)) = 1
                         /\ Strip(next_word.text)[1] \in BULLET_MARKERS)
                     \/ (Len(next_word.text) > 0 /\ next_word.text[1] \in BULLET_MARKERS)
        sentence_end == EndsSentence(current_word.text)
        large_gap == 2 * y_gap > 3 * avg_line_height
        moderate_gap == y_gap > avg_line_height
        new_indent == Abs(next_word.x * dominant_x.n - dominant_x.sum) > 30 * dominant_x.n
    IN  IF y_gap < 0 THEN FALSE
        ELSE IF current_word.break_type \notin LineBreakTypes THEN FALSE
        ELSE \/ large_gap
             \/ is_bullet
             \/ sentence_end
             \/ (moderate_gap /\ new_indent)

\* detect_paragraph_boundary; avg_line_height * 1.5 is compared in halves
detect_paragraph_boundary(current_word, next_word, avg_line_height, dominant_x) ==
    LET y_gap == next_word.y - current_word.max_y
        is_bullet == \/ (Len(Strip(next_word.text)) = 1
                         /\ Strip(next_word.text)[1] \in BULLET_MARKERS)
                     \/ (Len(next_word.text) > 0 /\ next_word.text[1] \in BULLET_MARKERS)
        sentence_end == EndsSentence(current_word.text)
        large_gap == 2 * y_gap > 3 * avg_line_height
        moderate_gap == y_gap > avg_line_height
        new_indent == Abs(next_word.x * dominant_x.n - dominant_x.sum) > 30 * dominant_x.n
    IN  IF y_gap < 0 THEN FALSE
        ELSE IF current_word.break_type \notin LineBreakTypes THEN FALSE
        ELSE \/ large_gap
             \/ is_bullet
             \/ (moderate_gap /\ sentence_end)
             \/ (moderate_gap /\ new_indent)

\* variant: a line break of the OCR is kept as a newline
reconstruct_short_answer_keep_breaks(words, start_idx, end_idx) ==
    LET last == Min2(end_idx, Len(words))
        RECURSIVE Parts(_)
        Parts(i) ==
            IF i >= last THEN <<>>
            ELSE words[i + 1].text
                 \o (IF i >= end_idx - 1 THEN <<>>
                     ELSE IF words[i + 1].break_type \in LineBreakTypes THEN <<"\n">>
                     ELSE <<" ">>)
                 \o Parts(i + 1)
    IN  Strip(CollapseSpaces(Parts(start_idx)))

\* enhanced reconstruct_short_answer: the parts list, joined and tidied
reconstruct_short_answer(words, start_idx, end_idx) ==
    LET last == Min2(end_idx, Len(words))
        RECURSIVE Parts(_)
        Parts(i) ==
            IF i >= last THEN <<>>
            ELSE words[i + 1].text \o (IF i < end_idx - 1 THEN <<" ">> ELSE <<>>)
                 \o Parts(i + 1)
    IN  Strip(CollapseSpaces(Parts(start_idx)))

\* enhanced reconstruct_long_answer
reconstruct_long_answer(words, start_idx, end_idx) ==
    LET answer_words == Slice(words, start_idx, end_idx)
        avg_line_height == calculate_average_line_height(answer_words)
        dominant_x == calculate_dominant_x_position(answer_words)
        last == Min2(end_idx, Len(words))
        RECURSIVE Parts(_)
        Parts(i) ==
            IF i >= last THEN <<>>
            ELSE words[i + 1].text \o
                 (IF i >= end_idx - 1 THEN <<>>
                  ELSE IF detect_paragraph_boundary(words[i + 1], words[i + 2],
                                                    avg_line_height, dominant_x)
                       THEN <<"\n", "\n">>
                  ELSE IF words[i + 1].break_type \in LineBreakTypes THEN <<" ">>
                  ELSE IF words[i + 1].has_space_after THEN <<" ">>
                  ELSE <<>>)
                 \o Parts(i + 1)
    IN  IF answer_words = <<>> THEN <<>>
        ELSE Strip(DropSpacesAfterNewline(DropSpacesBeforeNewline(
                 CollapseNewlines(CollapseSpaces(Parts(start_idx))))))

\* reconstruct_answer_text_adaptive: the dispatcher on answer_type
reconstruct_answer_text_adaptive(words, start_idx, end_idx, answer_type) ==
    IF answer_type = "long"
    THEN reconstruct_long_answer(words, start_idx, end_idx)
    ELSE reconstruct_short_answer(words, start_idx, end_idx)

(***************************************************************************)
(* Heuristic path: label search and page segmentation                      *)
(***************************************************************************)
\* insert boundary b behind the boundaries whose y_start is not larger
RECURSIVE InsertByY(_, _)
InsertByY(sorted, b) ==
    IF sorted = <<>> THEN <<b>>
    ELSE IF Head(sorted).y_start <= b.y_start
         THEN <<Head(sorted)>> \o InsertByY(Tail(sorted), b)
         ELSE <<b>> \o sorted

\* found_labels.sort(key=lambda x: x['y_start']) : stable
RECURSIVE SortByYStart(_)
SortByYStart(bs) ==
    IF bs = <<>> THEN <<>>
    ELSE InsertByY(SortByYStart(SubSeq(bs, 1, Len(bs) - 1)), bs[Len(bs)])

\* the loop of find_all_question_labels over words 0..n-1, before the sort
RECURSIVE ScanLabels(_, _, _, _)
ScanLabels(word_data, n, left_margin_threshold, max_expected_question) ==
    IF n = 0 THEN <<>>
    ELSE LET before == ScanLabels(word_data, n - 1, left_margin_threshold,
                                  max_expected_question)
             word == word_data[n]
             q_num == is_question_label(word.text)
         IN  IF word.x > left_margin_threshold THEN before
             ELSE IF q_num = None THEN before
             ELSE IF q_num > max_expected_question THEN before
             ELSE Append(before, [label |-> <<"Q">> \o Decimal(q_num),
                                  q_number |-> q_num,
                                  y_start |-> word.y,
                                  x_start |-> word.x,
                                  word_index |-> n - 1,
                                  raw_text |-> word.text])

find_all_question_labels(word_data, left_margin_threshold, max_expected_question) ==
    SortByYStart(ScanLabels(word_data, Len(word_data), left_margin_threshold,
                            max_expected_question))

\* config.get(key, default) for the options of segment_answers
ConfigGet(config, key, default) ==
    IF key \in DOMAIN config THEN config[key] ELSE default

\* question_types.get(str(q_num), default)
TypeGet(question_types, q_num, default) ==
    IF q_num \in DOMAIN question_types THEN question_types[q_num] ELSE default

\* start_idx of a boundary: the label word itself is skipped
SpanStart(word_data, boundary) ==
    IF boundary.word_index < Len(word_data)
       /\ is_question_label(word_data[boundary.word_index + 1].text) # None
    THEN boundary.word_index + 1
    ELSE boundary.word_index

\* end_idx of boundary i (1-based position in boundaries)
SpanEnd(word_data, boundaries, i) ==
    IF i + 1 <= Len(boundaries) THEN boundaries[i + 1].word_index ELSE Len(word_data)

\* the cleaned text of the span of boundary n, reconstructed as answer_type
SpanText(word_data, boundaries, n, answer_type) ==
    clean_answer_text(
        reconstruct_answer_text_adaptive(
            word_data, SpanStart(word_data, boundaries[n]),
            SpanEnd(word_data, boundaries, n), answer_type),
        boundaries[n].q_number)

\* segment_answers: the answer type it computes for a question
HeuristicAnswerType(config, q_num) ==
    IF DOMAIN ConfigGet(config, "question_types", <<>>) # {}
    THEN TypeGet(config.question_types, q_num, "short")
    ELSE ConfigGet(config, "default_answer_type", "short")

\* segment_answers: the loop over boundaries 1..n, filling segmented_answers_unsorted
RECURSIVE HeuristicLoop(_, _, _, _)
HeuristicLoop(word_data, boundaries, config, n) ==
    IF n = 0 THEN <<>>
    ELSE LET answers == HeuristicLoop(word_data, boundaries, config, n - 1)
             boundary == boundaries[n]
             answer_type == HeuristicAnswerType(config, boundary.q_number)
             \* answer_type is printed but not handed to the dispatcher,
             \* whose answer_type parameter defaults to 'short'
             answer_text == SpanText(word_data, boundaries, n, "short")
         IN  DictSet(answers, boundary.label, answer_text)

\* segment_answers: result['answers']
segment_answers(word_data, config) ==
    LET boundaries == find_all_question_labels(
                          word_data,
                          ConfigGet(config, "left_margin_threshold", 400),
                          ConfigGet(config, "max_expected_question", 20))
        full_text == reconstruct_answer_text_adaptive(word_data, 0, Len(word_data), "short")
        unlabeled == IF boundaries = <<>> /\ word_data # <<>> /\ Strip(full_text) # <<>>
                     THEN <<[label |-> UNLABELED_CONTINUATION, text |-> full_text]>>
                     ELSE <<>>
        labelled == HeuristicLoop(word_data, boundaries, config, Len(boundaries))
    IN  unlabeled \o StableSortByKey(labelled)

\* segment_answers_enhanced: the loop over boundaries 1..n
RECURSIVE EnhancedLoop(_, _, _, _)
EnhancedLoop(word_data, boundaries, config, n) ==
    IF n = 0 THEN <<>>
    ELSE LET answers == EnhancedLoop(word_data, boundaries, config, n - 1)
             boundary == boundaries[n]
             answer_type == TypeGet(ConfigGet(config, "question_types", <<>>),
                                    boundary.q_number,
                                    ConfigGet(config, "default_answer_type", "short"))
             answer_text == SpanText(word_data, boundaries, n, answer_type)
         IN  IF DictHas(answers, boundary.label)
             THEN IF answer_text # <<>>
                  THEN DictSet(answers, boundary.label,
                               DictGet(answers, boundary.label) \o <<" ">> \o answer_text)
                  ELSE answers
             ELSE DictSet(answers, boundary.label, answer_text)

\* segment_answers_enhanced: result['answers']
segment_answers_enhanced(word_data, config) ==
    LET boundaries == find_all_question_labels(
                          word_data,
                          ConfigGet(config, "left_margin_threshold", 400),
                          ConfigGet(config, "max_expected_question", 20))
    IN  EnhancedLoop(word_data, boundaries, config, Len(boundaries))

(***************************************************************************)
(* Span builder: build_question_spans (geometry path)                      *)
(***************************************************************************)
\* the least element of a non-empty set of <<row, q_num>> items, by row
MinByRow(items) == CHOOSE it \in items : \A other \in items : it[1] <= other[1]

\* the least element by question number, then row
MinByNumber(items) ==
    CHOOSE it \in items : \A other \in items :
        it[2] < other[2] \/ (it[2] = other[2] /\ it[1] <= other[1])

RECURSIVE SortItemsByNumber(_)
SortItemsByNumber(items) ==
    IF items = {} THEN <<>>
    ELSE <<MinByNumber(items)>> \o SortItemsByNumber(items \ {MinByNumber(items)})

RECURSIVE SortItemsByRow(_)
SortItemsByRow(items) ==
    IF items = {} THEN <<>>
    ELSE <<MinByRow(items)>> \o SortItemsByRow(items \ {MinByRow(items)})

\* row_to_qnum.items()
DictItems(m) == {<<r, m[r]>> : r \in DOMAIN m}

SortedLabelsByNumber(m) == SortItemsByNumber(DictItems(m))

\* sorted(row_to_qnum.items(), key=lambda x: x[0])
SortedLabels(m) == SortItemsByRow(DictItems(m))

build_question_spans(m, rows) ==
    LET sorted_labels == SortedLabels(m)
    IN  [i \in 1..Len(sorted_labels) |->
            [q_number |-> sorted_labels[i][2],
             label |-> <<"Q">> \o Decimal(sorted_labels[i][2]),
             start_row |-> sorted_labels[i][1],
             end_row |-> IF i + 1 <= Len(sorted_labels)
                         THEN sorted_labels[i + 1][1] - 1
                         ELSE rows - 1]]

\* every {row: number} map over the rows of a sheet of n rows
RowLabelMaps(n) ==
    UNION {[R -> 1..MaxQNum] : R \in SUBSET (0..(n - 1))}

SpansStart(active) ==
    /\ sp_pc = IF active THEN "input" ELSE "idle"
    /\ total_rows \in IF active THEN 1..MaxRows ELSE {0}
    /\ row_to_qnum \in IF active THEN RowLabelMaps(total_rows) ELSE {<<>>}
    /\ spans = <<>>

\* build_question_spans(row_to_qnum, total_rows) is called
BuildSpans ==
    /\ sp_pc = "input"
    /\ spans' = build_question_spans(row_to_qnum, total_rows)
    /\ sp_pc' = "done"
    /\ UNCHANGED <<row_to_qnum, total_rows>>
    /\ UNCHANGED notSpanVars

NextSpans == BuildSpans

(***************************************************************************)
(* Word-to-cell assigner: SheetGeometry and assign_words_to_cells          *)
(* Centres are halves of integers; the model compares the doubled values:  *)
(* row_ys[i] <= (y + max_y) / 2  iff  2 * row_ys[i] <= y + max_y.          *)
(***************************************************************************)
Coords == 0..MaxCoord

\* the strictly ascending list of the elements of a set of integers
RECURSIVE AscendingSeq(_)
AscendingSeq(S) ==
    IF S = {} THEN <<>>
    ELSE LET m == CHOOSE x \in S : \A y \in S : x <= y
         IN  <<m>> \o AscendingSeq(S \ {m})

\* detect_sheet_geometry returns at least one row boundary, sorted ascending
Geometries ==
    {[divider_x |-> dx, row_ys |-> AscendingSeq(R)] :
        dx \in Coords, R \in (SUBSET Coords) \ {{}}}

\* the bounding boxes of OCR words (min and max corner)
WordBoxes ==
    {[x |-> x, max_x |-> mx, y |-> y, max_y |-> my] :
        x \in Coords, mx \in Coords, y \in Coords, my \in Coords}

WellFormedBoxes == {w \in WordBoxes : w.x <= w.max_x /\ w.y <= w.max_y}

\* SheetGeometry.row_index_for_y on the doubled coordinate y2 = 2 * y
row_index_for_y(row_ys, y2) ==
    LET bands == {i \in 0..(Len(row_ys) - 2) :
                     2 * row_ys[i + 1] <= y2 /\ y2 < 2 * row_ys[i + 2]}
    IN  IF bands # {}
        THEN CHOOSE i \in bands : \A j \in bands : i <= j
        ELSE Len(row_ys) - 1

\* SheetGeometry.is_label_column on the doubled coordinate x2 = 2 * x
is_label_column(g, x2) == x2 < 2 * g.divider_x

AssignCellByCorner(word, g) ==
    [row |-> row_index_for_y(g.row_ys, 2 * word.y),
     is_label_col |-> is_label_column(g, 2 * word.x)]

\* the row and column assign_words_to_cells gives one word
AssignCell(word, g) ==
    [row |-> row_index_for_y(g.row_ys, word.y + word.max_y),
     is_label_col |-> is_label_column(g, word.x + word.max_x)]

\* cells = [cell of word for word in word_data]
assign_words_to_cells(word_data, g) ==
    [i \in 1..Len(word_data) |-> AssignCell(word_data[i], g) @@ word_data[i]]

CellsStart(active) ==
    /\ cl_pc = IF active THEN "input" ELSE "idle"
    /\ geometry \in IF active THEN Geometries ELSE {[divider_x |-> 0, row_ys |-> <<0>>]}
    /\ cl_words \in IF active THEN {<<w>> : w \in WellFormedBoxes} ELSE {<<>>}
    /\ cl_cells = <<>>

\* assign_words_to_cells(word_data, geometry) is called
AssignWords ==
    /\ cl_pc = "input"
    /\ cl_cells' = assign_words_to_cells(cl_words, geometry)
    /\ cl_pc' = "done"
    /\ UNCHANGED <<geometry, cl_words>>
    /\ UNCHANGED notCellVars

NextCells == AssignWords

(***************************************************************************)
(* Geometry path: labels per row, reconstruction, page segmentation        *)
(***************************************************************************)
\* extract_row_labels: the loop over cells 1..n; the first label of a row wins
RECURSIVE extract_row_labels(_, _, _)
extract_row_labels(cells, n, max_q) ==
    IF n = 0 THEN <<>>
    ELSE LET m == extract_row_labels(cells, n - 1, max_q)
             cell == cells[n]
             q == parse_question_label(cell.text)
         IN  IF cell.is_label_col /\ q # None /\ q <= max_q /\ cell.row \notin DOMAIN m
             THEN [r \in DOMAIN m \cup {cell.row} |-> IF r = cell.row THEN q ELSE m[r]]
             ELSE m

\* insert cell c behind the cells that are not after it in (row, x) order
RECURSIVE InsertByRowX(_, _)
InsertByRowX(sorted, c) ==
    IF sorted = <<>> THEN <<c>>
    ELSE IF Head(sorted).row < c.row \/ (Head(sorted).row = c.row /\ Head(sorted).x <= c.x)
         THEN <<Head(sorted)>> \o InsertByRowX(Tail(sorted), c)
         ELSE <<c>> \o sorted

\* sorted(cells, key=lambda c: (c.row, c.x)) : stable
RECURSIVE SortByRowX(_)
SortByRowX(cells) ==
    IF cells = <<>> THEN <<>>
    ELSE InsertByRowX(SortByRowX(SubSeq(cells, 1, Len(cells) - 1)), cells[Len(cells)])

\* _words_for_span: the answer-column cells of rows start_row..end_row
words_for_span(cells, start_row, end_row) ==
    SortByRowX(SelectSeq(cells, LAMBDA c : /\ ~c.is_label_col
                                           /\ start_row <= c.row
                                           /\ c.row <= end_row))

\* ' '.join(c.text for c in cells)
RECURSIVE JoinTexts(_)
JoinTexts(cells) ==
    IF cells = <<>> THEN <<>>
    ELSE IF Len(cells) = 1 THEN cells[1].text
    ELSE cells[1].text \o <<" ">> \o JoinTexts(Tail(cells))

\* geometry reconstruct_short_answer
geometry_reconstruct_short_answer(cells, start_row, end_row) ==
    Strip(CollapseSpaces(JoinTexts(words_for_span(cells, start_row, end_row))))

\* the (row, line) pairs of geometry reconstruct_long_answer, rows ascending
RowLines(words) ==
    LET occupied_rows == AscendingSeq({words[i].row : i \in 1..Len(words)})
        line(row) == Strip(CollapseSpaces(JoinTexts(
                         SelectSeq(words, LAMBDA c : c.row = row))))
    IN  SelectSeq([k \in 1..Len(occupied_rows) |->
                      [row |-> occupied_rows[k], line |-> line(occupied_rows[k])]],
                  LAMBDA rl : rl.line # <<>>)

\* variant: a blank row between two lines is not noticed
RECURSIVE JoinRowLinesSpaceOnly(_)
JoinRowLinesSpaceOnly(lines) ==
    IF lines = <<>> THEN <<>>
    ELSE IF Len(lines) = 1 THEN lines[1].line
    ELSE lines[1].line \o <<" ">> \o JoinRowLinesSpaceOnly(Tail(lines))

\* the parts list of geometry reconstruct_long_answer, joined
RECURSIVE JoinRowLines(_)
JoinRowLines(lines) ==
    IF lines = <<>> THEN <<>>
    ELSE IF Len(lines) = 1 THEN lines[1].line
    ELSE lines[1].line
         \o (IF lines[2].row - lines[1].row > 1 THEN <<"\n", "\n">> ELSE <<" ">>)
         \o JoinRowLines(Tail(lines))

\* geometry reconstruct_long_answer
geometry_reconstruct_long_answer(cells, start_row, end_row) ==
    Strip(CollapseNewlines(CollapseSpaces(
        JoinRowLines(RowLines(words_for_span(cells, start_row, end_row))))))

\* the cleaned text of a span, reconstructed as answer_type
GeometrySpanText(cells, span, answer_type) ==
    LET raw == IF answer_type = "long"
               THEN geometry_reconstruct_long_answer(cells, span.start_row, span.end_row)
               ELSE geometry_reconstruct_short_answer(cells, span.start_row, span.end_row)
    IN  Strip(StripLabelPrefix(raw, span.q_number, {"Q", "q", "0", "O"}))

\* segment_answers_geometry: the loop over spans 1..n, filling answers
RECURSIVE GeometryLoop(_, _, _, _)
GeometryLoop(cells, sps, config, n) ==
    IF n = 0 THEN <<>>
    ELSE LET answers == GeometryLoop(cells, sps, config, n - 1)
             span == sps[n]
             answer_type == TypeGet(ConfigGet(config, "question_types", <<>>),
                                    span.q_number,
                                    ConfigGet(config, "default_answer_type", "short"))
             text == GeometrySpanText(cells, span, answer_type)
         IN  IF DictHas(answers, span.label)
             THEN IF text # <<>>
                  THEN DictSet(answers, span.label,
                               DictGet(answers, span.label) \o <<" ">> \o text)
                  ELSE answers
             ELSE DictSet(answers, span.label, text)

\* segment_answers_geometry: result['answers'] for the detected geometry g
segment_answers_geometry(word_data, g, config) ==
    LET cells == assign_words_to_cells(word_data, g)
        labels == extract_row_labels(cells, Len(cells),
                                     ConfigGet(config, "max_expected_question", 50))
        sps == build_question_spans(labels, Len(g.row_ys))
        all_right == SortByRowX(SelectSeq(cells, LAMBDA c : ~c.is_label_col))
        text == Strip(CollapseSpaces(JoinTexts(all_right)))
    IN  IF sps = <<>>
        THEN IF text # <<>>
             THEN <<[label |-> UNLABELED_CONTINUATION, text |-> text]>>
             ELSE <<>>
        ELSE StableSortByKey(GeometryLoop(cells, sps, config, Len(sps)))

(***************************************************************************)
(* Label search as a function of the word list                             *)
(***************************************************************************)
\* word texts: labels, OCR variants, bare and delimited numbers, plain words
FindTexts ==
    {<<"Q", "1">>, <<"1">>, <<"1", ":">>, <<"1", ".">>, <<"O", "3">>, <<"0", "1">>,
     <<"Q", "2", "0">>, <<"Q", "2", "1">>, <<"a">>}

\* words left of, at and right of the default left margin threshold, on two lines
FindWords ==
    {[text |-> t, x |-> x, y |-> y] : t \in FindTexts, x \in {399, 400, 401}, y \in {5, 30}}

\* all lists of exactly n words
RECURSIVE FindWordLists(_)
FindWordLists(n) ==
    IF n = 0 THEN {<<>>}
    ELSE {Append(ws, w) : ws \in FindWordLists(n - 1), w \in FindWords}

FindStart(active) ==
    /\ fl_pc = IF active THEN "input" ELSE "idle"
    /\ fl_words \in IF active THEN UNION {FindWordLists(n) : n \in 0..MaxLabelWords}
                            ELSE {<<>>}
    /\ found_labels = <<>>

\* find_all_question_labels(word_data) is called with its default parameters
FindLabels ==
    /\ fl_pc = "input"
    /\ found_labels' = find_all_question_labels(fl_words, 400, 20)
    /\ fl_pc' = "done"
    /\ UNCHANGED fl_words
    /\ UNCHANGED notFindVars

NextFind == FindLabels

(***************************************************************************)
(* Page segmentation by the three paths                                    *)
(* A page is a list of tokens (text, break after it, blank row after the   *)
(* line); the OCR boxes follow the printed sheet: rows 25 apart, a line    *)
(* starts in the label column, words are 40 wide and 15 high.              *)
(***************************************************************************)
SegTokens ==
    {[text |-> l, break_type |-> "SPACE", skip_row |-> FALSE] : l \in {Q1, Q2}}
    \cup
    {[text |-> <<"a">>, break_type |-> b, skip_row |-> FALSE] :
        b \in {"SPACE", "UNKNOWN", "LINE_BREAK"}}
    \cup
    {[text |-> <<"a">>, break_type |-> "LINE_BREAK", skip_row |-> TRUE]}

\* all lists of exactly n tokens
RECURSIVE TokenLists(_)
TokenLists(n) ==
    IF n = 0 THEN {<<>>}
    ELSE {Append(ts, t) : ts \in TokenLists(n - 1), t \in SegTokens}

\* the sheet row word i is written on
RECURSIVE TokenRow(_, _)
TokenRow(tokens, i) ==
    IF i = 1 THEN 0
    ELSE TokenRow(tokens, i - 1)
         + (IF tokens[i - 1].break_type \in LineBreakTypes
            THEN (IF tokens[i - 1].skip_row THEN 2 ELSE 1) ELSE 0)

\* the number of words before word i on its line
RECURSIVE TokenColumn(_, _)
TokenColumn(tokens, i) ==
    IF i = 1 \/ tokens[i - 1].break_type \in LineBreakTypes THEN 0
    ELSE TokenColumn(tokens, i - 1) + 1

\* extract_word_level_data: the word records of the page
WordData(tokens) ==
    [i \in 1..Len(tokens) |->
        [text |-> tokens[i].text,
         x |-> 10 + 50 * TokenColumn(tokens, i),
         max_x |-> 50 + 50 * TokenColumn(tokens, i),
         y |-> 5 + 25 * TokenRow(tokens, i),
         max_y |-> 20 + 25 * TokenRow(tokens, i),
         break_type |-> tokens[i].break_type,
         has_space_after |-> HasSpaceAfter(tokens[i].break_type)]]

\* detect_sheet_geometry on the template sheet: divider at 10.8% of 547,
\* a row line every 25: enough rows for every line of the page
TemplateGeometry ==
    [divider_x |-> 59, row_ys |-> [k \in 1..(2 * MaxWords + 4) |-> 25 * (k - 1)]]

\* the config dicts: question types for question 1 or none, default type or none
SegConfigs ==
    {[is_handwritten |-> TRUE]}
    \cup
    {[is_handwritten |-> TRUE, question_types |-> qt, default_answer_type |-> d] :
        qt \in {<<>>, <<"long">>, <<"short">>}, d \in {"short", "long"}}

\* the report of a result before any path has run
NoValidation ==
    [is_valid |-> FALSE, missing_questions |-> {}, out_of_order |-> FALSE,
     has_duplicates |-> FALSE, warnings |-> {}]

\* q_numbers != sorted(q_numbers)
OutOfOrder(q_numbers) ==
    \E i, j \in 1..Len(q_numbers) : i < j /\ q_numbers[i] > q_numbers[j]

\* validate_question_sequence with expected_questions = None: is_valid, missing,
\* the kinds of warnings, and the flags of info that the metadata copies
validate_question_sequence(boundaries, strict) ==
    IF boundaries = <<>>
    THEN [is_valid |-> FALSE, missing_questions |-> {}, out_of_order |-> FALSE,
          has_duplicates |-> FALSE, warnings |-> {"no questions"}]
    ELSE LET q_numbers == [i \in 1..Len(boundaries) |-> boundaries[i].q_number]
             found_set == {q_numbers[i] : i \in 1..Len(q_numbers)}
             min_q == CHOOSE q \in found_set : \A r \in found_set : q <= r
             max_q == CHOOSE q \in found_set : \A r \in found_set : q >= r
             missing == (min_q..max_q) \ found_set
             out_of_order == OutOfOrder(q_numbers)
             has_duplicates == Len(q_numbers) # Cardinality(found_set)
         IN  [is_valid |-> missing = {} /\ ~has_duplicates /\ (1 \in found_set \/ ~strict),
              missing_questions |-> missing,
              out_of_order |-> out_of_order,
              has_duplicates |-> has_duplicates,
              warnings |->
                  (IF 1 \notin found_set THEN {"start"} ELSE {})
                  \cup (IF missing # {} THEN {"missing"} ELSE {})
                  \cup (IF has_duplicates THEN {"duplicate"} ELSE {})
                  \cup (IF out_of_order THEN {"order"} ELSE {})
                  \cup (IF \E i \in 1..(Len(boundaries) - 1) :
                               boundaries[i + 1].y_start - boundaries[i].y_start < 30
                        THEN {"spacing"} ELSE {})]

\* the report of segment_answers and of segment_answers_enhanced
segment_answers_validation(word_data, config) ==
    validate_question_sequence(
        find_all_question_labels(word_data,
                                 ConfigGet(config, "left_margin_threshold", 400),
                                 ConfigGet(config, "max_expected_question", 20)),
        ConfigGet(config, "strict_validation", FALSE))

\* the report of segment_answers_geometry: only the order of the spans is looked at
segment_answers_geometry_validation(word_data, g, config) ==
    LET cells == assign_words_to_cells(word_data, g)
        sps == build_question_spans(
                   extract_row_labels(cells, Len(cells),
                                      ConfigGet(config, "max_expected_question", 50)),
                   Len(g.row_ys))
        writing_order == [i \in 1..Len(sps) |-> sps[i].q_number]
    IN  IF sps = <<>>
        THEN [is_valid |-> FALSE, missing_questions |-> {}, out_of_order |-> FALSE,
              has_duplicates |-> FALSE, warnings |-> {"no questions"}]
        ELSE [is_valid |-> TRUE, missing_questions |-> {},
              out_of_order |-> OutOfOrder(writing_order),
              has_duplicates |-> FALSE,
              warnings |-> IF OutOfOrder(writing_order) THEN {"order"} ELSE {}]

SegStart(active) ==
    /\ seg_pc = IF active THEN "input" ELSE "idle"
    /\ seg_tokens \in IF active THEN UNION {TokenLists(n) : n \in 0..MaxWords} ELSE {<<>>}
    /\ seg_config \in IF active THEN SegConfigs ELSE {[is_handwritten |-> TRUE]}
    /\ seg_answers = <<>>
    /\ seg_validation = NoValidation

\* detect_and_segment_image: segment_answers on the OCR words
SegmentHeuristic ==
    /\ seg_pc = "input"
    /\ seg_answers' = segment_answers(WordData(seg_tokens), seg_config)
    /\ seg_validation' = segment_answers_validation(WordData(seg_tokens), seg_config)
    /\ seg_pc' = "heuristic"
    /\ UNCHANGED <<seg_tokens, seg_config>>
    /\ UNCHANGED notSegVars

\* segment_answers_enhanced on the OCR words
SegmentEnhanced ==
    /\ seg_pc = "input"
    /\ seg_answers' = segment_answers_enhanced(WordData(seg_tokens), seg_config)
    /\ seg_validation' = segment_answers_validation(WordData(seg_tokens), seg_config)
    /\ seg_pc' = "enhanced"
    /\ UNCHANGED <<seg_tokens, seg_config>>
    /\ UNCHANGED notSegVars

\* segment_answers_geometry on the OCR words and the sheet image
SegmentGeometry ==
    /\ seg_pc = "input"
    /\ seg_answers' = segment_answers_geometry(WordData(seg_tokens), TemplateGeometry,
                                               seg_config)
    /\ seg_validation' = segment_answers_geometry_validation(WordData(seg_tokens),
                                                              TemplateGeometry, seg_config)
    /\ seg_pc' = "geometry"
    /\ UNCHANGED <<seg_tokens, seg_config>>
    /\ UNCHANGED notSegVars

NextSeg == SegmentHeuristic \/ SegmentEnhanced \/ SegmentGeometry

(***************************************************************************)
(* Answer reconstruction as a function of the words of one answer          *)
(* A token is a word with the break the OCR put after it, whether the next *)
(* word starts a new line, the vertical gap to that line, whether that     *)
(* line is indented, and whether the word is tall (30 high instead of 15). *)
(* Lines start in the answer column at x = 60.                             *)
(***************************************************************************)
SameLine(break_type) ==
    [break_type |-> break_type, newline |-> FALSE, gap |-> 0, indent |-> FALSE]

NewLine(break_type, gap, indent) ==
    [break_type |-> break_type, newline |-> TRUE, gap |-> gap, indent |-> indent]

\* the breaks after a plain word: on the line with and without a space, a
\* line end the OCR took for a space, line breaks with a small, a moderate
\* and a large gap, and a moderate gap before an indented line
ReconShapes ==
    {SameLine("SPACE"), SameLine("UNKNOWN"), NewLine("SPACE", 35, FALSE),
     NewLine("LINE_BREAK", 10, FALSE), NewLine("LINE_BREAK", 20, FALSE),
     NewLine("LINE_BREAK", 20, TRUE), NewLine("EOL_SURE_SPACE", 35, FALSE)}

ReconTokens ==
    {[text |-> <<"a">>, shape |-> s, tall |-> FALSE] : s \in ReconShapes}
    \cup
    {[text |-> <<"a", ".">>, shape |-> s, tall |-> FALSE] :
        s \in {SameLine("SPACE"), NewLine("LINE_BREAK", 10, FALSE),
               NewLine("LINE_BREAK", 20, FALSE)}}
    \cup
    {[text |-> <<"-">>, shape |-> s, tall |-> FALSE] :
        s \in {SameLine("SPACE"), NewLine("LINE_BREAK", 10, FALSE)}}
    \cup
    {[text |-> t, shape |-> NewLine("LINE_BREAK", 20, FALSE), tall |-> TRUE] :
        t \in {<<"a">>, <<"a", ".">>}}

\* all lists of exactly n tokens
RECURSIVE ReconTokenLists(_)
ReconTokenLists(n) ==
    IF n = 0 THEN {<<>>}
    ELSE {Append(ts, t) : ts \in ReconTokenLists(n - 1), t \in ReconTokens}

ReconHeight(token) == IF token.tall THEN 30 ELSE 15

\* the top of the box of word i: a new line starts gap below the bottom of
\* the word before it
RECURSIVE ReconY(_, _)
ReconY(tokens, i) ==
    IF i = 1 THEN 5
    ELSE IF tokens[i - 1].shape.newline
         THEN ReconY(tokens, i - 1) + ReconHeight(tokens[i - 1]) + tokens[i - 1].shape.gap
         ELSE ReconY(tokens, i - 1)

\* the left edge of the box of word i
RECURSIVE ReconX(_, _)
ReconX(tokens, i) ==
    IF i = 1 THEN 60
    ELSE IF tokens[i - 1].shape.newline
         THEN (IF tokens[i - 1].shape.indent THEN 110 ELSE 60)
         ELSE ReconX(tokens, i - 1) + 50

\* extract_word_level_data: the word records of the answer
ReconWordData(tokens) ==
    [i \in 1..Len(tokens) |->
        [text |-> tokens[i].text,
         x |-> ReconX(tokens, i),
         max_x |-> ReconX(tokens, i) + 40,
         y |-> ReconY(tokens, i),
         max_y |-> ReconY(tokens, i) + ReconHeight(tokens[i]),
         break_type |-> tokens[i].shape.break_type,
         has_space_after |-> HasSpaceAfter(tokens[i].shape.break_type)]]

\* the cells of the answer on the template sheet
ReconCells(tokens) == assign_words_to_cells(ReconWordData(tokens), TemplateGeometry)

ReconStart(active) ==
    /\ rc_pc = IF active THEN "input" ELSE "idle"
    /\ rc_tokens \in IF active THEN UNION {ReconTokenLists(n) : n \in 0..MaxAnswerWords}
                              ELSE {<<>>}
    /\ rc_text = <<>>

\* enhanced reconstruct_short_answer(words, 0, None)
ShortHeuristic ==
    /\ rc_pc = "input"
    /\ rc_text' = reconstruct_short_answer(ReconWordData(rc_tokens), 0, Len(rc_tokens))
    /\ rc_pc' = "short_heuristic"
    /\ UNCHANGED rc_tokens
    /\ UNCHANGED notReconVars

\* enhanced reconstruct_long_answer(words, 0, None)
LongHeuristic ==
    /\ rc_pc = "input"
    /\ rc_text' = reconstruct_long_answer(ReconWordData(rc_tokens), 0, Len(rc_tokens))
    /\ rc_pc' = "long_heuristic"
    /\ UNCHANGED rc_tokens
    /\ UNCHANGED notReconVars

\* geometry reconstruct_short_answer(cells, 0, last row)
ShortGeometry ==
    /\ rc_pc = "input"
    /\ rc_text' = geometry_reconstruct_short_answer(ReconCells(rc_tokens), 0,
                                                    Len(TemplateGeometry.row_ys) - 1)
    /\ rc_pc' = "short_geometry"
    /\ UNCHANGED rc_tokens
    /\ UNCHANGED notReconVars

\* geometry reconstruct_long_answer(cells, 0, last row)
LongGeometry ==
    /\ rc_pc = "input"
    /\ rc_text' = geometry_reconstruct_long_answer(ReconCells(rc_tokens), 0,
                                                   Len(TemplateGeometry.row_ys) - 1)
    /\ rc_pc' = "long_geometry"
    /\ UNCHANGED rc_tokens
    /\ UNCHANGED notReconVars

NextRecon == ShortHeuristic \/ LongHeuristic \/ ShortGeometry \/ LongGeometry

(***************************************************************************)
(* Mark curve: round_by_half and calculate_marks (components/valuation.py) *)
(* A similarity is a number of twentieths, a threshold a number of         *)
(* hundredths, max_mark the fraction num / den, a mark a number of half    *)
(* points.                                                                 *)
(***************************************************************************)
Similarities == 0..20

\* the thresholds the callers pass: holistic, point by point, short answer
Thresholds == {35, 40, 55}

\* ((similarity - threshold) / (1.0 - threshold)) ** 0.6 in millionths, for
\* the similarities 0/20 .. 20/20 at or above the threshold (0 below it)
CurveTable ==
    [t \in Thresholds |->
        IF t = 35
        THEN <<0, 0, 0, 0, 0, 0, 0, 0, 214602, 325276, 414865, 493026, 563658, 628818,
               689752, 747288, 802009, 854346, 904627, 953109, 1000000>>
        ELSE IF t = 40
        THEN <<0, 0, 0, 0, 0, 0, 0, 0, 0, 225160, 341279, 435275, 517282, 591389,
               659754, 723686, 784053, 841466, 896378, 949133, 1000000>>
        ELSE <<0, 0, 0, 0, 0, 0, 0, 0, 0, 0, 0, 0, 267581, 405576, 517282, 614739,
               702808, 784053, 860029, 931769, 1000000>>]

\* curved_scale of calculate_marks, in millionths
CurvedScale(similarity_score, threshold) == CurveTable[threshold][similarity_score + 1]

\* round(mark, 2) for mark = curved_scale * max_mark, in hundredths
RoundedMark(curved_scale, max_mark) ==
    (2 * curved_scale * max_mark.num + 10000 * max_mark.den) \div (20000 * max_mark.den)

\* round_by_half of a number of hundredths, in half points: round(score * 2)
\* rounds a tie to the even integer
round_by_half(hundredths) ==
    LET q == hundredths \div 50
        r == hundredths % 50
    IN  IF r > 25 THEN q + 1
        ELSE IF r < 25 THEN q
        ELSE IF q % 2 = 0 THEN q ELSE q + 1

\* variant: an answer below the threshold still gets half a mark
calculate_marks_no_zero(similarity_score, max_mark, threshold) ==
    IF 5 * similarity_score < threshold THEN 1
    ELSE round_by_half(RoundedMark(CurvedScale(similarity_score, threshold), max_mark))

calculate_marks(similarity_score, max_mark, threshold) ==
    IF 5 * similarity_score < threshold THEN 0
    ELSE round_by_half(RoundedMark(CurvedScale(similarity_score, threshold), max_mark))

\* the values of max_mark: a question's marks, or its share per key point
MaxMarks == {[num |-> t, den |-> n] : t \in 1..MaxTotalMark, n \in 1..MaxKeyPoints}

MarksStart(active) ==
    /\ mk_pc = IF active THEN "input" ELSE "idle"
    /\ mk_threshold \in IF active THEN Thresholds ELSE {55}
    /\ mk_max_mark \in IF active THEN MaxMarks ELSE {[num |-> 1, den |-> 1]}
    /\ mk_low \in IF active THEN Similarities ELSE {0}
    /\ mk_high \in IF active THEN {s \in Similarities : mk_low <= s} ELSE {0}
    /\ mk_mark_low = 0
    /\ mk_mark_high = 0

\* calculate_marks is called for the two similarities
CalculateMarks ==
    /\ mk_pc = "input"
    /\ mk_mark_low' = calculate_marks(mk_low, mk_max_mark, mk_threshold)
    /\ mk_mark_high' = calculate_marks(mk_high, mk_max_mark, mk_threshold)
    /\ mk_pc' = "done"
    /\ UNCHANGED <<mk_threshold, mk_max_mark, mk_low, mk_high>>
    /\ UNCHANGED notMarksVars

NextMarks == CalculateMarks

(***************************************************************************)
(* Long-answer valuation: holistic_valuation, point_by_point_valuation and *)
(* advanced_long_valuation. The cosine similarities come from the sentence *)
(* model: each call returns one of a few values between -0.25 and 1. The   *)
(* student answer is known by the number of paragraphs                     *)
(* smart_paragraph_split cuts it into and by whether one of them is longer *)
(* than 300 characters.                                                    *)
(***************************************************************************)
CosineValues == {-5, 6, 14, 20}

WholeMark(total) == [num |-> total, den |-> 1]

LongStart(active) ==
    /\ lv_pc = IF active THEN "holistic" ELSE "idle"
    /\ lv_total \in IF active THEN 1..MaxTotalMark ELSE {1}
    /\ lv_key_points \in IF active THEN 1..MaxKeyPoints ELSE {1}
    /\ lv_paragraphs \in IF active THEN 0..2 ELSE {0}
    /\ lv_long_paragraph \in IF active /\ lv_paragraphs > 0 THEN BOOLEAN ELSE {FALSE}
    /\ lv_holistic = 0
    /\ lv_i = 0
    /\ lv_j = 0
    /\ lv_best = 0
    /\ lv_obtained = 0
    /\ lv_final = 0

\* holistic_valuation: one similarity of the whole answer, marked out of the
\* question's marks with threshold 0.35
HolisticValuation ==
    /\ lv_pc = "holistic"
    /\ \E similarity_score \in CosineValues :
           lv_holistic' = calculate_marks(similarity_score, WholeMark(lv_total), 35)
    /\ lv_pc' = "split"
    /\ UNCHANGED <<lv_total, lv_key_points, lv_paragraphs, lv_long_paragraph, lv_i, lv_j,
                   lv_best, lv_obtained, lv_final>>
    /\ UNCHANGED notLongVars

\* point_by_point_valuation starts with smart_paragraph_split, whose branch
\* for a paragraph above 300 characters reads `sentences` before it is
\* bound and raises UnboundLocalError
SplitParagraphs ==
    /\ lv_pc = "split"
    /\ lv_pc' = IF lv_long_paragraph THEN "raised" ELSE "points"
    /\ UNCHANGED <<lv_total, lv_key_points, lv_paragraphs, lv_long_paragraph, lv_holistic,
                   lv_i, lv_j, lv_best, lv_obtained, lv_final>>
    /\ UNCHANGED notLongVars

\* the inner loop: the score of the next paragraph against key point lv_i
ScoreParagraph ==
    /\ lv_pc = "points"
    /\ lv_i < lv_key_points
    /\ lv_j < lv_paragraphs
    /\ \E score \in CosineValues :
           lv_best' = IF score > lv_best THEN score ELSE lv_best
    /\ lv_j' = lv_j + 1
    /\ UNCHANGED <<lv_pc, lv_total, lv_key_points, lv_paragraphs, lv_long_paragraph,
                   lv_holistic, lv_i, lv_obtained, lv_final>>
    /\ UNCHANGED notLongVars

\* the end of the outer loop body: the best score is marked out of
\* mark_per_point = total_question_mark / len(teacher_key_point), threshold 0.4
MarkKeyPoint ==
    /\ lv_pc = "points"
    /\ lv_i < lv_key_points
    /\ lv_j = lv_paragraphs
    /\ lv_obtained' = lv_obtained
           + calculate_marks(lv_best, [num |-> lv_total, den |-> lv_key_points], 40)
    /\ lv_i' = lv_i + 1
    /\ lv_j' = 0
    /\ lv_best' = 0
    /\ UNCHANGED <<lv_pc, lv_total, lv_key_points, lv_paragraphs, lv_long_paragraph,
                   lv_holistic, lv_final>>
    /\ UNCHANGED notLongVars

\* variant: the holistic mark is the final score
FinalScoreHolisticOnly ==
    /\ lv_pc = "points"
    /\ lv_i = lv_key_points
    /\ lv_final' = lv_holistic
    /\ lv_pc' = "done"
    /\ UNCHANGED <<lv_total, lv_key_points, lv_paragraphs, lv_long_paragraph, lv_holistic,
                   lv_i, lv_j, lv_best, lv_obtained>>
    /\ UNCHANGED notLongVars

\* advanced_long_valuation: final_score
FinalScore ==
    /\ lv_pc = "points"
    /\ lv_i = lv_key_points
    /\ lv_final' = IF lv_holistic >= lv_obtained THEN lv_holistic ELSE lv_obtained
    /\ lv_pc' = "done"
    /\ UNCHANGED <<lv_total, lv_key_points, lv_paragraphs, lv_long_paragraph, lv_holistic,
                   lv_i, lv_j, lv_best, lv_obtained>>
    /\ UNCHANGED notLongVars

NextLong ==
    HolisticValuation \/ SplitParagraphs \/ ScoreParagraph \/ MarkKeyPoint \/ FinalScore

(***************************************************************************)
(* Evaluation of one student's answers against an exam: utils.py            *)
(* evaluate_student_submission and evaluate_student_with_exam_data, whose   *)
(* loops are the same. The mark of an answer is the value the valuation     *)
(* functions return, taken here as any whole mark up to the question's.     *)
(* Two evaluations of one exam and one answer sheet run side by side; they  *)
(* may differ in the marks of the questions of OR groups only.              *)
(***************************************************************************)
Q2b == <<"Q", "2", "b">>

Q3 == <<"Q", "3">>

Q4 == <<"Q", "4">>

Q9 == <<"Q", "9">>

SeqRange(s) == {s[i] : i \in 1..Len(s)}

\* normalize_question_key of a str key
normalize_question_key(key, add_prefix) ==
    LET match == FirstDigitRun(key)
        num == IF match = <<>> THEN <<"0">> ELSE match
    IN  IF add_prefix THEN <<"Q">> \o num ELSE num

\* the keys of question_types and question_marks: str(q) of the question numbers
QuestionNumbers == {<<"1">>, <<"2">>, <<"3">>, <<"4">>}

QuestionMarkProfiles ==
    {[q \in QuestionNumbers |-> m] : m \in 1..MaxQuestionMark}
    \cup {[q \in QuestionNumbers |->
              IF q \in {<<"1">>, <<"3">>} THEN 1 ELSE MaxQuestionMark]}

SingleGroup(options) ==
    [type |-> "single", options |-> options, option_a |-> <<>>, option_b |-> <<>>]

PairGroup(option_a, option_b) ==
    [type |-> "pair", options |-> <<>>, option_a |-> option_a, option_b |-> option_b]

\* the or_groups lists of the exams
OrGroupLists ==
    { <<>>,
      <<SingleGroup(<< <<"1">>, <<"2">> >>)>>,
      <<SingleGroup(<< <<"2">>, <<"2", "b">> >>)>>,
      <<PairGroup(<< <<"1">>, <<"2">> >>, << <<"3">>, <<"4">> >>)>>,
      <<SingleGroup(<< <<"1">>, <<"2">> >>), PairGroup(<< <<"3">> >>, << <<"4">> >>)>> }

\* the questions an OR group names
GroupQuestions(group) ==
    IF group.type = "single" THEN group.options
    ELSE group.option_a \o group.option_b

\* the labels the teacher's key has an answer for
TeacherLabels(or_groups) ==
    {Q1, Q2, Q3, Q4}
    \cup {<<"Q">> \o q : q \in UNION {SeqRange(GroupQuestions(or_groups[i])) :
                                        i \in 1..Len(or_groups)}}

Exams ==
    {[question_types |-> [q \in QuestionNumbers |->
                             IF q \in {<<"1">>, <<"2">>} THEN "short" ELSE "long"],
      question_marks |-> marks,
      teacher_answers |-> TeacherLabels(or_groups),
      or_groups |-> or_groups] :
        marks \in QuestionMarkProfiles, or_groups \in OrGroupLists}

\* the sets of questions a student answered
AnsweredSets ==
    { {Q1, Q2}, {Q3, Q4}, {Q2, Q2b}, {Q4, Q9}, {Q1, Q2, Q3}, {Q1, Q3, Q4} }

\* student_answers.items(): the answered labels in the order of the dict
Orderings(S) ==
    {s \in [1..Cardinality(S) -> S] : \A i, j \in 1..Cardinality(S) : s[i] = s[j] => i = j}

AnswerSheets == UNION {Orderings(S) : S \in AnsweredSets}

Runs == {1, 2}

\* or_question_map: question -> index of its group, a later group overwrites
or_question_map(or_groups) ==
    LET GroupsOf(q) == {i \in 1..Len(or_groups) : q \in SeqRange(GroupQuestions(or_groups[i]))}
        keys == UNION {SeqRange(GroupQuestions(or_groups[i])) : i \in 1..Len(or_groups)}
    IN  [q \in keys |-> CHOOSE i \in GroupsOf(q) : \A j \in GroupsOf(q) : j <= i]

\* d[key] = value on a dict kept as the sequence of its items: a key that is
\* there keeps its place
ItemSet(d, key, item) ==
    IF \E i \in 1..Len(d) : d[i].key = key
    THEN [i \in 1..Len(d) |-> IF d[i].key = key THEN item ELSE d[i]]
    ELSE Append(d, item)

ItemHas(d, key) == \E i \in 1..Len(d) : d[i].key = key

ItemGet(d, key) == d[CHOOSE i \in 1..Len(d) : d[i].key = key]

NewRun ==
    [or_group_scores |-> <<>>, marks_breakdown |-> <<>>,
     total_marks_obtained |-> 0, total_marks_possible |-> 0]

\* variant: an answer is marked although the teacher's key has no answer for its label
IsEvaluatedAnyLabel(exam, q_label) ==
    normalize_question_key(q_label, FALSE) \in DOMAIN exam.question_types

\* the two skips of the loop over the answers
IsEvaluated(exam, q_label) ==
    /\ normalize_question_key(q_label, FALSE) \in DOMAIN exam.question_types
    /\ q_label \in exam.teacher_answers

InOrGroup(exam, q_label) ==
    normalize_question_key(q_label, FALSE) \in DOMAIN or_question_map(exam.or_groups)

\* a marks_breakdown entry of a question outside the OR groups
PlainEntry(q_label, score, max_marks) ==
    [key |-> q_label, marks_obtained |-> score, max_marks |-> max_marks,
     or_group |-> FALSE, or_type |-> "", chosen_option |-> <<>>, chosen_pair |-> ""]

\* one round of the loop over student_answers.items(), the answer has got score
EvaluateAnswer(run, exam, q_label, score) ==
    LET q_num == normalize_question_key(q_label, FALSE)
        max_marks == exam.question_marks[q_num]
        map == or_question_map(exam.or_groups)
        group_idx == map[q_num]
        group_data == IF ItemHas(run.or_group_scores, group_idx)
                      THEN ItemGet(run.or_group_scores, group_idx).group_data
                      ELSE <<>>
        data == [key |-> q_num, score |-> score, max_marks |-> max_marks,
                 q_label |-> q_label]
    IN  IF ~IsEvaluated(exam, q_label) THEN run
        ELSE IF q_num \in DOMAIN map
        THEN [run EXCEPT !.or_group_scores =
                 ItemSet(@, group_idx,
                         [key |-> group_idx,
                          group_data |-> ItemSet(group_data, q_num, data)])]
        ELSE [run EXCEPT
                 !.marks_breakdown = ItemSet(@, q_label, PlainEntry(q_label, score, max_marks)),
                 !.total_marks_obtained = @ + score,
                 !.total_marks_possible = @ + max_marks]

\* the loop that finds best_q of a 'single' group: the first of the highest scores
RECURSIVE BestOption(_, _, _, _)
BestOption(group_data, i, best_q, best_score) ==
    IF i > Len(group_data) THEN best_q
    ELSE IF group_data[i].score > best_score
         THEN BestOption(group_data, i + 1, group_data[i].key, group_data[i].score)
         ELSE BestOption(group_data, i + 1, best_q, best_score)

SingleEntry(q_data, best_q) ==
    [key |-> q_data.q_label, marks_obtained |-> q_data.score,
     max_marks |-> q_data.max_marks, or_group |-> TRUE, or_type |-> "single",
     chosen_option |-> best_q, chosen_pair |-> ""]

ProcessSingle(run, group_data) ==
    LET best_q == BestOption(group_data, 1, <<>>, -1)
        q_data == ItemGet(group_data, best_q)
    IN  IF best_q = <<>> THEN run
        ELSE [run EXCEPT
                 !.marks_breakdown = ItemSet(@, q_data.q_label, SingleEntry(q_data, best_q)),
                 !.total_marks_obtained = @ + q_data.score,
                 !.total_marks_possible = @ + q_data.max_marks]

\* sum(group_data[q][field] for q in questions if q in group_data)
RECURSIVE SideSum(_, _, _)
SideSum(group_data, questions, field) ==
    IF questions = <<>> THEN 0
    ELSE (IF ItemHas(group_data, Head(questions))
          THEN ItemGet(group_data, Head(questions))[field] ELSE 0)
         + SideSum(group_data, Tail(questions), field)

\* variant: the side with the lower sum is kept
ChosenPairLower(pair_a_total, pair_b_total) ==
    IF pair_a_total <= pair_b_total THEN "a" ELSE "b"

\* if pair_a_total >= pair_b_total
ChosenPair(pair_a_total, pair_b_total) ==
    IF pair_a_total >= pair_b_total THEN "a" ELSE "b"

PairEntry(q_data, chosen_pair) ==
    [key |-> q_data.q_label, marks_obtained |-> q_data.score,
     max_marks |-> q_data.max_marks, or_group |-> TRUE, or_type |-> "pair",
     chosen_option |-> <<>>, chosen_pair |-> chosen_pair]

\* the loop over chosen_questions that writes the entries of the kept side
RECURSIVE PairEntries(_, _, _, _)
PairEntries(marks_breakdown, group_data, chosen_questions, chosen_pair) ==
    IF chosen_questions = <<>> THEN marks_breakdown
    ELSE PairEntries(
             IF ItemHas(group_data, Head(chosen_questions))
             THEN LET q_data == ItemGet(group_data, Head(chosen_questions))
                  IN  ItemSet(marks_breakdown, q_data.q_label, PairEntry(q_data, chosen_pair))
             ELSE marks_breakdown,
             group_data, Tail(chosen_questions), chosen_pair)

\* variant: the marks of both sides count as possible marks
ChosenMaxBothSides(chosen_pair, pair_a_max, pair_b_max) == pair_a_max + pair_b_max

\* chosen_max
ChosenMax(chosen_pair, pair_a_max, pair_b_max) ==
    IF chosen_pair = "a" THEN pair_a_max ELSE pair_b_max

ProcessPair(run, group, group_data) ==
    LET pair_a_total == SideSum(group_data, group.option_a, "score")
        pair_a_max == SideSum(group_data, group.option_a, "max_marks")
        pair_b_total == SideSum(group_data, group.option_b, "score")
        pair_b_max == SideSum(group_data, group.option_b, "max_marks")
        chosen_pair == ChosenPair(pair_a_total, pair_b_total)
        chosen_questions == IF chosen_pair = "a" THEN group.option_a ELSE group.option_b
        chosen_total == IF chosen_pair = "a" THEN pair_a_total ELSE pair_b_total
    IN  [run EXCEPT
            !.marks_breakdown = PairEntries(@, group_data, chosen_questions, chosen_pair),
            !.total_marks_obtained = @ + chosen_total,
            !.total_marks_possible = @ + ChosenMax(chosen_pair, pair_a_max, pair_b_max)]

\* one round of the loop over or_group_scores.items()
ProcessGroup(run, exam, k) ==
    LET group == exam.or_groups[run.or_group_scores[k].key]
        group_data == run.or_group_scores[k].group_data
    IN  IF group.type = "single" THEN ProcessSingle(run, group_data)
        ELSE IF group.type = "pair" THEN ProcessPair(run, group, group_data)
        ELSE run

\* the two loops of an evaluation, one after the other, from run on
RECURSIVE EvaluateAll(_, _, _, _, _)
EvaluateAll(run, exam, answers, scores, k) ==
    IF answers # <<>>
    THEN EvaluateAll(EvaluateAnswer(run, exam, Head(answers), Head(scores)), exam,
                     Tail(answers), Tail(scores), k)
    ELSE IF k <= Len(run.or_group_scores)
    THEN EvaluateAll(ProcessGroup(run, exam, k), exam, answers, scores, k + 1)
    ELSE run

\* the marks the valuation gives one answer in the two evaluations: any mark in
\* the first, and in the second the same mark or, for a question of an OR group,
\* the mark as far from the question's marks as the first is from zero
ScorePairs(exam, q_label) ==
    IF ~IsEvaluated(exam, q_label) THEN {<<None, None>>}
    ELSE LET max_marks == exam.question_marks[normalize_question_key(q_label, FALSE)]
         IN  {<<score, score>> : score \in 0..max_marks}
             \cup (IF InOrGroup(exam, q_label)
                   THEN {<<score, max_marks - score>> : score \in 0..max_marks}
                   ELSE {})

EvalStart(active) ==
    /\ ev_pc = IF active THEN "evaluating" ELSE "idle"
    /\ ev_exam \in IF active THEN Exams
                   ELSE {CHOOSE e \in Exams : e.or_groups = <<>>}
    /\ ev_answers \in IF active THEN AnswerSheets ELSE {<<Q1, Q2>>}
    /\ ev_scores = [r \in Runs |-> <<>>]
    /\ ev_i = 0
    /\ ev_g = 0
    /\ ev_runs = [r \in Runs |-> NewRun]

\* for q_label, student_ans in student_answers.items()
EvaluateQuestion ==
    /\ ev_pc = "evaluating"
    /\ ev_i < Len(ev_answers)
    /\ \E p \in ScorePairs(ev_exam, ev_answers[ev_i + 1]) :
          /\ ev_scores' = [r \in Runs |-> Append(ev_scores[r], p[r])]
          /\ ev_runs' = [r \in Runs |->
                            EvaluateAnswer(ev_runs[r], ev_exam, ev_answers[ev_i + 1], p[r])]
    /\ ev_i' = ev_i + 1
    /\ UNCHANGED <<ev_pc, ev_exam, ev_answers, ev_g>>
    /\ UNCHANGED notEvalVars

\* for group_idx, group_data in or_group_scores.items()
ProcessOrGroup ==
    /\ ev_pc = "evaluating"
    /\ ev_i = Len(ev_answers)
    /\ ev_g < Len(ev_runs[1].or_group_scores)
    /\ ev_runs' = [r \in Runs |-> ProcessGroup(ev_runs[r], ev_exam, ev_g + 1)]
    /\ ev_g' = ev_g + 1
    /\ UNCHANGED <<ev_pc, ev_exam, ev_answers, ev_scores, ev_i>>
    /\ UNCHANGED notEvalVars

\* the result is returned
ReturnResult ==
    /\ ev_pc = "evaluating"
    /\ ev_i = Len(ev_answers)
    /\ ev_g = Len(ev_runs[1].or_group_scores)
    /\ ev_pc' = "done"
    /\ UNCHANGED <<ev_exam, ev_answers, ev_scores, ev_i, ev_g, ev_runs>>
    /\ UNCHANGED notEvalVars

NextEval == EvaluateQuestion \/ ProcessOrGroup \/ ReturnResult

(***************************************************************************)
(* Saving an answer key: parse_question_range, parse_marks_string and      *)
(* save_answer_key_util on the form fields, as texts                       *)
(***************************************************************************)
\* the characters of a marks string
MarkAlphabet == {"0", "1", "2", ",", "x", " ", "-"}

\* all marks strings of exactly n characters
RECURSIVE MarkTextsOfLen(_)
MarkTextsOfLen(n) ==
    IF n = 0 THEN {<<>>}
    ELSE {Append(t, c) : t \in MarkTextsOfLen(n - 1), c \in MarkAlphabet}

\* str.split(sep): the parts of t between the separators
RECURSIVE SplitAt(_, _)
SplitAt(t, sep) ==
    IF \A i \in 1..Len(t) : t[i] # sep THEN <<t>>
    ELSE LET k == CHOOSE i \in 1..Len(t) :
                      t[i] = sep /\ \A j \in 1..(i - 1) : t[j] # sep
         IN  <<SubSeq(t, 1, k - 1)>> \o SplitAt(SubSeq(t, k + 1, Len(t)), sep)

\* int(t) succeeds: blanks around an optional sign and at least one digit
IntValid(t) ==
    LET s == Strip(t)
        ds == IF s # <<>> /\ s[1] \in {"-", "+"} THEN Tail(s) ELSE s
    IN  ds # <<>> /\ AllDigits(ds)

\* int(t) where it succeeds
IntValue(t) ==
    LET s == Strip(t)
    IN  IF s[1] = "-" THEN 0 - IntOfDigits(Tail(s))
        ELSE IF s[1] = "+" THEN IntOfDigits(Tail(s))
        ELSE IntOfDigits(s)

Raised == [raised |-> TRUE, value |-> <<>>]

Returns(value) == [raised |-> FALSE, value |-> value]

\* parse_marks_string: the list of marks, or Raised for a ValueError
parse_marks_string(marks_str, question_count) ==
    LET stripped == Strip(marks_str)
        marks_parts == [i \in 1..Len(SplitAt(stripped, ",")) |->
                           Strip(SplitAt(stripped, ",")[i])]
    IN  IF marks_str = <<>> \/ stripped = <<>> THEN Raised
        ELSE IF \A i \in 1..Len(stripped) : stripped[i] # ","
        THEN IF ~IntValid(stripped) THEN Raised
             ELSE IF IntValue(stripped) <= 0 THEN Raised
             ELSE Returns([i \in 1..question_count |-> IntValue(stripped)])
        ELSE IF \E i \in 1..Len(marks_parts) : ~IntValid(marks_parts[i]) THEN Raised
        ELSE LET marks_list == [i \in 1..Len(marks_parts) |-> IntValue(marks_parts[i])]
             IN  IF \E i \in 1..Len(marks_list) : marks_list[i] <= 0 THEN Raised
                 ELSE IF Len(marks_list) # question_count THEN Raised
                 ELSE Returns(marks_list)

\* the numbers of one part of a question range: "3" or "3-4"
RangePart(part) ==
    LET p == Strip(part)
        ends == SplitAt(p, "-")
    IN  IF \E i \in 1..Len(p) : p[i] = "-"
        THEN IF Len(ends) # 2 \/ ~IntValid(ends[1]) \/ ~IntValid(ends[2]) THEN Raised
             ELSE Returns([i \in 1..(IntValue(ends[2]) - IntValue(ends[1]) + 1) |->
                              IntValue(ends[1]) + i - 1])
        ELSE IF ~IntValid(p) THEN Raised
        ELSE Returns(<<IntValue(p)>>)

\* parse_question_range over the first n parts
RECURSIVE RangeParts(_, _)
RangeParts(parts, n) ==
    IF n = 0 THEN Returns(<<>>)
    ELSE LET before == RangeParts(parts, n - 1)
             this == RangePart(parts[n])
         IN  IF before.raised \/ this.raised THEN Raised
             ELSE Returns(before.value \o this.value)

parse_question_range(range_str) ==
    RangeParts(SplitAt(range_str, ","), Len(SplitAt(range_str, ",")))

\* the questions of a form field: parsed when the field is filled in
QuestionsOf(range_str) ==
    IF range_str # <<>> THEN parse_question_range(range_str) ELSE Returns(<<>>)

\* the sum of the first n marks
RECURSIVE MarkSum(_, _)
MarkSum(marks, n) == IF n = 0 THEN 0 ELSE MarkSum(marks, n - 1) + marks[n]

Failed(error) == [status |-> "Failed", error |-> error]

\* the exam record written for the form
ExamData(short_questions, long_questions, short_marks_list, long_marks_list) ==
    LET questions == SeqRange(short_questions) \cup SeqRange(long_questions)
        MarkOf(q) ==
            IF \E i \in 1..Len(long_questions) : long_questions[i] = q
            THEN long_marks_list[CHOOSE i \in 1..Len(long_questions) :
                     /\ long_questions[i] = q
                     /\ \A j \in (i + 1)..Len(long_questions) : long_questions[j] # q]
            ELSE short_marks_list[CHOOSE i \in 1..Len(short_questions) :
                     /\ short_questions[i] = q
                     /\ \A j \in (i + 1)..Len(short_questions) : short_questions[j] # q]
    IN  [total_marks |-> MarkSum(short_marks_list, Len(short_marks_list))
                         + MarkSum(long_marks_list, Len(long_marks_list)),
         question_types |-> [q \in questions |->
             IF q \in SeqRange(long_questions) THEN "long" ELSE "short"],
         question_marks |-> [q \in questions |-> MarkOf(q)],
         student_submissions |-> <<>>]

\* save_answer_key_util: the result and the store it leaves; the exam id is new
save_answer_key_util(data, store) ==
    LET short_range == QuestionsOf(data.short_questions)
        long_range == QuestionsOf(data.long_questions)
        short_questions == short_range.value
        long_questions == long_range.value
        short_marks == parse_marks_string(data.short_marks, Len(short_questions))
        long_marks == parse_marks_string(data.long_marks, Len(long_questions))
        short_marks_list == IF short_questions # <<>> THEN short_marks.value ELSE <<>>
        long_marks_list == IF long_questions # <<>> THEN long_marks.value ELSE <<>>
        exam_data == ExamData(short_questions, long_questions, short_marks_list,
                              long_marks_list)
        exam_id == Len(store) + 1
        unchanged(result) == [result |-> result, store |-> store]
    IN  IF data.exam_name = <<>>
        THEN unchanged(Failed("Missing required fields"))
        ELSE IF short_range.raised \/ long_range.raised
        THEN unchanged([status |-> "raised"])
        ELSE IF short_questions = <<>> /\ long_questions = <<>>
        THEN unchanged(Failed("Please specify at least one question range"))
        ELSE IF short_questions # <<>> /\ data.short_marks # <<>> /\ short_marks.raised
        THEN unchanged(Failed("Short question marks error"))
        ELSE IF short_questions # <<>> /\ data.short_marks = <<>>
        THEN unchanged(Failed("Short questions specified but no marks provided"))
        ELSE IF long_questions # <<>> /\ data.long_marks # <<>> /\ long_marks.raised
        THEN unchanged(Failed("Long question marks error"))
        ELSE IF long_questions # <<>> /\ data.long_marks = <<>>
        THEN unchanged(Failed("Long questions specified but no marks provided"))
        ELSE IF exam_data.total_marks <= 0
        THEN unchanged(Failed("Total marks must be greater than 0"))
        ELSE [result |-> [status |-> "Success", exam_id |-> exam_id,
                          question_count |-> Cardinality(DOMAIN exam_data.question_types),
                          total_marks |-> exam_data.total_marks],
              store |-> Append(store, exam_data)]

\* the store before the form is sent: one exam saved earlier
KeyStore ==
    <<[total_marks |-> 1, question_types |-> [q \in {1} |-> "short"],
       question_marks |-> [q \in {1} |-> 1], student_submissions |-> <<>>]>>

\* the forms: short marks of every text, the other fields from a few values
KeyForms ==
    [exam_name : {<<>>, <<"e">>},
     short_questions : {<<>>, <<"1", "-", "2">>},
     long_questions : {<<>>, <<"3">>, <<"3", "-", "4">>, <<"3", "-">>},
     short_marks : UNION {MarkTextsOfLen(n) : n \in 0..MaxMarkLen},
     long_marks : {<<>>, <<"2">>, <<"1", ",", "2">>, <<"x">>}]

KeyStart(active) ==
    /\ ak_pc = IF active THEN "input" ELSE "idle"
    /\ ak_data \in IF active THEN KeyForms
                   ELSE {[exam_name |-> <<>>, short_questions |-> <<>>,
                          long_questions |-> <<>>, short_marks |-> <<>>,
                          long_marks |-> <<>>]}
    /\ ak_store = KeyStore
    /\ ak_result = [status |-> "none"]

\* save_answer_key_util(data)
SaveAnswerKey ==
    /\ ak_pc = "input"
    /\ ak_result' = save_answer_key_util(ak_data, ak_store).result
    /\ ak_store' = save_answer_key_util(ak_data, ak_store).store
    /\ ak_pc' = "done"
    /\ UNCHANGED ak_data
    /\ UNCHANGED notKeyVars

NextKey == SaveAnswerKey

(***************************************************************************)
(* The answer-key file under two callers: save_student_submission and      *)
(* evaluate_student_submission each load the whole file, change one        *)
(* submission of their copy and save the copy as the whole file.  A step   *)
(* is one load or one save of the file; no lock is held between them.      *)
(* The file holds one exam "E"; the exam id "X" is unknown.                *)
(***************************************************************************)
Callers == {1, 2}

RollNos == {1, 2}

\* the submission save_student_submission stores
PendingSubmission(answers) ==
    [answers |-> answers, valuation_status |-> "pending", marks_awarded |-> None,
     total_marks_obtained |-> None, percentage |-> None]

\* the variant that writes the status alone
EvaluatedSubmissionStatusOnly(student_data, marks) ==
    [student_data EXCEPT !.valuation_status = "completed"]

\* the submission after the four assignments of evaluate_student_submission:
\* marks out of MaxStoreMark, the breakdown stands for the marks it sums to
EvaluatedSubmission(student_data, marks) ==
    [student_data EXCEPT !.marks_awarded = marks,
                         !.total_marks_obtained = marks,
                         !.percentage = (marks * 100) \div MaxStoreMark,
                         !.valuation_status = "completed"]

\* exam_data['student_submissions'][roll_no] = submission
SetSubmission(submissions, roll_no, submission) ==
    [r \in DOMAIN submissions \cup {roll_no} |->
        IF r = roll_no THEN submission ELSE submissions[r]]

\* the variant that changes the one submission in the file as it is now
WriteBackOntoCurrent(all_exam_data, current, exam_id, roll_no, submission) ==
    [current EXCEPT ![exam_id] = SetSubmission(@, roll_no, submission)]

\* the file save_answer_keys(all_exam_data) leaves where the file was current:
\* the caller's copy with the one submission changed
WriteBack(all_exam_data, current, exam_id, roll_no, submission) ==
    [all_exam_data EXCEPT ![exam_id] = SetSubmission(@, roll_no, submission)]

IdleCaller ==
    [pc |-> "idle", op |-> "none", exam_id |-> "E", roll_no |-> 1, answers |-> 0,
     all_exam_data |-> <<>>, result |-> [status |-> "none"], calls |-> 0]

FailedCall == [status |-> "Failed"]

\* the files the callers start from: the exam with no, one or two submissions
StartFiles ==
    {[e \in {"E"} |-> [r \in R |-> PendingSubmission(1)]] : R \in SUBSET RollNos}

StoreStart(active) ==
    /\ st_file \in IF active THEN StartFiles ELSE {[e \in {"E"} |-> <<>>]}
    /\ st_caller = [c \in Callers |-> IdleCaller]

\* the callers make MaxCalls calls between them
CanCall(c) ==
    /\ st_caller[c].pc \in {"idle", "returned"}
    /\ st_caller[1].calls + st_caller[2].calls < MaxCalls

\* save_student_submission up to the check of the exam id: load_answer_keys
SaveLoad(c) ==
    \E exam_id \in {"E", "X"}, roll_no \in RollNos, answers \in 1..2 :
        /\ CanCall(c)
        /\ st_caller' = [st_caller EXCEPT ![c] =
               [pc |-> IF exam_id \in DOMAIN st_file THEN "save" ELSE "returned",
                op |-> "save", exam_id |-> exam_id, roll_no |-> roll_no,
                answers |-> answers, all_exam_data |-> st_file,
                result |-> IF exam_id \in DOMAIN st_file THEN [status |-> "none"]
                           ELSE FailedCall,
                calls |-> @.calls + 1]]
        /\ UNCHANGED st_file
        /\ UNCHANGED notStoreVars

\* save_student_submission from the new submission to the return
SaveWrite(c) ==
    /\ st_caller[c].pc = "save"
    /\ st_file' = WriteBack(st_caller[c].all_exam_data, st_file, st_caller[c].exam_id,
                            st_caller[c].roll_no,
                            PendingSubmission(st_caller[c].answers))
    /\ st_caller' = [st_caller EXCEPT ![c].pc = "returned",
                                      ![c].result = [status |-> "Success"]]
    /\ UNCHANGED notStoreVars

\* evaluate_student_submission up to the two checks: load_answer_keys
EvaluateLoad(c) ==
    \E exam_id \in {"E", "X"}, roll_no \in RollNos :
        LET found == exam_id \in DOMAIN st_file /\ roll_no \in DOMAIN st_file[exam_id]
        IN  /\ CanCall(c)
            /\ st_caller' = [st_caller EXCEPT ![c] =
                   [pc |-> IF found THEN "evaluate" ELSE "returned",
                    op |-> "evaluate", exam_id |-> exam_id, roll_no |-> roll_no,
                    answers |-> 0, all_exam_data |-> st_file,
                    result |-> IF found THEN [status |-> "none"] ELSE FailedCall,
                    calls |-> @.calls + 1]]
            /\ UNCHANGED st_file
            /\ UNCHANGED notStoreVars

\* evaluate_student_submission from the marking to the return
EvaluateWrite(c) ==
    \E marks \in 0..MaxStoreMark :
        /\ st_caller[c].pc = "evaluate"
        /\ st_file' = WriteBack(st_caller[c].all_exam_data, st_file,
                                st_caller[c].exam_id, st_caller[c].roll_no,
                                EvaluatedSubmission(
                                    st_caller[c].all_exam_data[st_caller[c].exam_id]
                                        [st_caller[c].roll_no], marks))
        /\ st_caller' = [st_caller EXCEPT
               ![c].pc = "returned",
               ![c].result = [status |-> "Success", total_marks_obtained |-> marks]]
        /\ UNCHANGED notStoreVars

\* evaluate_student_submission when the marking raises: the except clause
EvaluateRaises(c) ==
    /\ st_caller[c].pc = "evaluate"
    /\ st_caller' = [st_caller EXCEPT ![c].pc = "returned", ![c].result = FailedCall]
    /\ UNCHANGED st_file
    /\ UNCHANGED notStoreVars

NextStore ==
    \E c \in Callers :
        \/ SaveLoad(c)
        \/ SaveWrite(c)
        \/ EvaluateLoad(c)
        \/ EvaluateWrite(c)
        \/ EvaluateRaises(c)

(***************************************************************************)
(* Specifications: one per component, the other components stay idle       *)
(***************************************************************************)
\* the initial state when only the named component takes steps
InitOf(component) ==
    /\ MergeStart(component = "merge")
    /\ LabelStart(component = "label")
    /\ SpansStart(component = "spans")
    /\ CellsStart(component = "cells")
    /\ FindStart(component = "find")
    /\ SegStart(component = "seg")
    /\ ReconStart(component = "recon")
    /\ MarksStart(component = "marks")
    /\ LongStart(component = "long")
    /\ EvalStart(component = "eval")
    /\ KeyStart(component = "key")
    /\ StoreStart(component = "store")

InitMerge == InitOf("merge")

SpecMerge == InitMerge /\ [][NextMerge]_vars

InitLabel == InitOf("label")

SpecLabel == InitLabel /\ [][NextLabel]_vars

InitSpans == InitOf("spans")

SpecSpans == InitSpans /\ [][NextSpans]_vars

InitCells == InitOf("cells")

SpecCells == InitCells /\ [][NextCells]_vars

InitFind == InitOf("find")

SpecFind == InitFind /\ [][NextFind]_vars

InitSeg == InitOf("seg")

SpecSeg == InitSeg /\ [][NextSeg]_vars

InitRecon == InitOf("recon")

SpecRecon == InitRecon /\ [][NextRecon]_vars

InitMarks == InitOf("marks")

SpecMarks == InitMarks /\ [][NextMarks]_vars

InitLong == InitOf("long")

SpecLong == InitLong /\ [][NextLong]_vars

InitEval == InitOf("eval")

SpecEval == InitEval /\ [][NextEval]_vars

InitKey == InitOf("key")

SpecKey == InitKey /\ [][NextKey]_vars

InitStore == InitOf("store")

SpecStore == InitStore /\ [][NextStore]_vars

(***************************************************************************)
(* Claims about the merger                                                 *)
(***************************************************************************)
JoinSpace(texts) ==
    LET RECURSIVE Join(_)
        Join(ts) == IF Len(ts) = 1 THEN ts[1]
                    ELSE Join(SubSeq(ts, 1, Len(ts) - 1)) \o <<" ">> \o ts[Len(ts)]
    IN  Join(texts)

\* the stripped texts label l carries on the given pages, in page order
RECURSIVE StrippedTextsOf(_, _)
StrippedTextsOf(l, pages) ==
    IF pages = <<>> THEN <<>>
    ELSE StrippedTextsOf(l, SubSeq(pages, 1, Len(pages) - 1)) \o
         (IF DictHas(pages[Len(pages)], l)
          THEN <<Strip(DictGet(pages[Len(pages)], l))>> ELSE <<>>)

LabelsOfPages(pages) == UNION {DictKeys(pages[i]) : i \in 1..Len(pages)}

AllPagesLabeled == UNLABELED_CONTINUATION \notin LabelsOfPages(input_pages)

\* C1: for a list of labeled pages the merged text of every label is the
\* page-order, space-joined concatenation of its stripped per-page texts, and
\* the merged map holds exactly the labels the pages carry (nothing is lost).
C1_MergeConcatenatesInPageOrder ==
    (mpc = "done" /\ AllPagesLabeled) =>
        /\ DictKeys(merge_result) = LabelsOfPages(input_pages)
        /\ Len(merge_result) = Cardinality(LabelsOfPages(input_pages))
        /\ \A l \in LabelsOfPages(input_pages) :
              DictGet(merge_result, l) = JoinSpace(StrippedTextsOf(l, input_pages))

C1_Witness ==
    /\ mpc = "done"
    /\ AllPagesLabeled
    /\ Len(input_pages) = 2
    /\ DictHas(input_pages[1], Q1)
    /\ DictHas(input_pages[2], Q1)
    /\ DictHas(input_pages[2], Q2)
    /\ DictGet(merge_result, Q1) = <<"a", " ", "b">>

\* the labels "seen" while reading pages 1..k in order: a page's own labels in
\* map order, preceded by the default Q1 when the page is unlabeled and nothing
\* was seen before it
RECURSIVE SeenLabels(_, _)
SeenLabels(pages, k) ==
    IF k = 0 THEN <<>>
    ELSE LET before == SeenLabels(pages, k - 1)
             own == [i \in 1..Len(DictDel(pages[k], UNLABELED_CONTINUATION)) |->
                        DictDel(pages[k], UNLABELED_CONTINUATION)[i].label]
         IN  before \o
             (IF DictHas(pages[k], UNLABELED_CONTINUATION) /\ before = <<>>
              THEN <<Q1>> ELSE <<>>) \o own

IsPrefix(p, t) == Len(p) <= Len(t) /\ SubSeq(t, 1, Len(p)) = p

\* the entry an unlabeled page k+1 goes to: the label seen last on pages 1..k, else Q1
ContinuationTarget(pages, k) ==
    IF SeenLabels(pages, k) = <<>> THEN Q1
    ELSE SeenLabels(pages, k)[Len(SeenLabels(pages, k))]

\* C2: merging a page that holds UNLABELED_CONTINUATION appends its text,
\* space-joined, to the entry of the label seen most recently on the prior
\* pages; with no label seen yet it seeds entry Q1, which then counts as the
\* most recently seen label.
C2_UnlabeledGoesToLastSeenLabel ==
    [][(mpc = "merge" /\ page_index' = page_index + 1
          /\ DictHas(input_pages[page_index + 1], UNLABELED_CONTINUATION)) =>
        LET page == input_pages[page_index + 1]
            text == Strip(DictGet(page, UNLABELED_CONTINUATION))
            target == ContinuationTarget(input_pages, page_index)
            expected == IF DictHas(merged_answers, target)
                        THEN DictGet(merged_answers, target) \o <<" ">> \o text
                        ELSE text
        IN  /\ (SeenLabels(input_pages, page_index) # <<>>) => DictHas(merged_answers, target)
            /\ DictHas(merged_answers', target)
            /\ IsPrefix(expected, DictGet(merged_answers', target))
            /\ (~DictHas(page, target)) => DictGet(merged_answers', target) = expected
            /\ \A l \in DictKeys(merged_answers) \ (DictKeys(page) \cup {target}) :
                  DictGet(merged_answers', l) = DictGet(merged_answers, l)]_vars

\* an unlabeled first page followed by a second unlabeled page, both in Q1
C2_Witness ==
    /\ mpc = "done"
    /\ Len(input_pages) = 2
    /\ DictKeys(input_pages[1]) = {UNLABELED_CONTINUATION}
    /\ DictKeys(input_pages[2]) = {UNLABELED_CONTINUATION}
    /\ merge_result = <<[label |-> Q1, text |-> <<"a", " ", "b">>]>>

\* C3: the returned answers are ordered by the number embedded in each label,
\* ascending, whatever the arrival order, and hold exactly the merged entries.
C3_ResultSortedByNumber ==
    (mpc = "done") =>
        /\ \A i, j \in 1..Len(merge_result) :
              i < j => LabelSortKey(merge_result[i].label) < LabelSortKey(merge_result[j].label)
        /\ {merge_result[i] : i \in 1..Len(merge_result)} =
           {merged_answers[i] : i \in 1..Len(merged_answers)}
        /\ Len(merge_result) = Len(merged_answers)

\* labels arrive in the order Q10, Q2, Q1 and come out Q1, Q2, Q10
C3_Witness ==
    /\ mpc = "done"
    /\ Len(input_pages) = 2
    /\ DictKeys(input_pages[1]) = {Q10}
    /\ [i \in 1..Len(input_pages[2]) |-> input_pages[2][i].label] = <<Q2, Q1>>
    /\ [i \in 1..Len(merge_result) |-> merge_result[i].label] = <<Q1, Q2, Q10>>

(***************************************************************************)
(* Claims about label recognition                                          *)
(***************************************************************************)
\* t with its leading "0" characters removed
RECURSIVE DropLeadingZeros(_)
DropLeadingZeros(t) ==
    IF t # <<>> /\ Head(t) = "0" THEN DropLeadingZeros(Tail(t)) ELSE t

\* word w is one of Q q 0 O followed by digits that read as the number n
IsLabelFor(w, n) ==
    /\ Len(w) >= 2
    /\ w[1] \in {"Q", "q", "0", "O"}
    /\ \A i \in 2..Len(w) : w[i] \in Digits
    /\ DropLeadingZeros(Tail(w)) = Decimal(n)

\* C8: parse_question_label returns n exactly when the stripped word is one
\* character of Q q 0 O followed by digits of value n in 1..50, else None; it
\* accepts Q1 q7 Q12 O3 01 and rejects 1, 1:, 1., 12x, Q0, Q51.
C8_ParseQuestionLabel ==
    (lbl_pc = "done") =>
        /\ \A n \in 1..50 : (lbl_result = n) <=> IsLabelFor(Strip(lbl_text), n)
        /\ lbl_result \in (1..50) \cup {None}
        /\ (lbl_text = <<"Q", "1">>) => lbl_result = 1
        /\ (lbl_text = <<"q", "7">>) => lbl_result = 7
        /\ (lbl_text = <<"Q", "1", "2">>) => lbl_result = 12
        /\ (lbl_text = <<"O", "3">>) => lbl_result = 3
        /\ (lbl_text = <<"0", "1">>) => lbl_result = 1
        /\ (lbl_text \in {<<"1">>, <<"1", ":">>, <<"1", ".">>, <<"1", "2", "x">>,
                          <<"Q", "0">>, <<"Q", "5", "1">>}) => lbl_result = None

\* the OCR variant 015 (for Q15) was parsed as question 15
C8_Witness ==
    /\ lbl_pc = "done"
    /\ lbl_text = <<"0", "1", "5">>
    /\ lbl_result = 15

(***************************************************************************)
(* Claims about span building                                              *)
(***************************************************************************)
RowInSpan(r, sp) == sp.start_row <= r /\ r <= sp.end_row

\* C4: for a non-empty label map the spans are exhaustive: every row
\* 0..total_rows-1, the rows above the first label included, lies in a span.
C4_SpansCoverEveryRow ==
    (sp_pc = "done" /\ DOMAIN row_to_qnum # {}) =>
        \A r \in 0..(total_rows - 1) : \E i \in 1..Len(spans) : RowInSpan(r, spans[i])

\* C5: spans are ordered by row, not by question number: span i starts at the
\* i-th label row and carries its number, ends one row before the next label
\* row (the last one at total_rows-1), has start_row <= end_row, and no row
\* lies in two spans.
C5_SpansOrderedByRow ==
    (sp_pc = "done" /\ DOMAIN row_to_qnum # {}) =>
        /\ Len(spans) = Cardinality(DOMAIN row_to_qnum)
        /\ {spans[i].start_row : i \in 1..Len(spans)} = DOMAIN row_to_qnum
        /\ \A i \in 1..Len(spans) :
              /\ spans[i].q_number = row_to_qnum[spans[i].start_row]
              /\ spans[i].start_row <= spans[i].end_row
              /\ i < Len(spans) => /\ spans[i].start_row < spans[i + 1].start_row
                                   /\ spans[i].end_row = spans[i + 1].start_row - 1
              /\ i = Len(spans) => spans[i].end_row = total_rows - 1
        /\ \A r \in 0..(total_rows - 1) : \A i, j \in 1..Len(spans) :
              (RowInSpan(r, spans[i]) /\ RowInSpan(r, spans[j])) => i = j

\* Q3 written above Q1: the spans follow the rows
C5_Witness ==
    /\ sp_pc = "done"
    /\ total_rows = 4
    /\ DOMAIN row_to_qnum = {0, 2}
    /\ row_to_qnum[0] = 3
    /\ row_to_qnum[2] = 1
    /\ spans = <<[q_number |-> 3, label |-> <<"Q", "3">>, start_row |-> 0, end_row |-> 1],
                 [q_number |-> 1, label |-> <<"Q", "1">>, start_row |-> 2, end_row |-> 3]>>

(***************************************************************************)
(* Claims about word-to-cell assignment                                    *)
(***************************************************************************)
\* the centre (doubled) of the word lies in band i: row_ys[i] <= centre < row_ys[i+1]
CentreInBand(word, row_ys, i) ==
    /\ 2 * row_ys[i + 1] <= word.y + word.max_y
    /\ word.y + word.max_y < 2 * row_ys[i + 2]

\* C10: every word gets exactly one row index in 0..len(row_ys)-1, the band
\* that holds its bounding-box centre or the last row when no band does, and
\* the label column exactly when its centre x is left of divider_x.
C10_WordGetsOneRowAndColumn ==
    (cl_pc = "done") =>
        /\ Len(cl_cells) = Len(cl_words)
        /\ \A k \in 1..Len(cl_words) :
              LET n == Len(geometry.row_ys)
                  word == cl_words[k]
                  cell == cl_cells[k]
              IN  /\ cell.row \in 0..(n - 1)
                  /\ \A i \in 0..(n - 2) :
                        CentreInBand(word, geometry.row_ys, i) => cell.row = i
                  /\ (\A i \in 0..(n - 2) : ~CentreInBand(word, geometry.row_ys, i))
                        => cell.row = n - 1
                  /\ cell.is_label_col <=> (word.x + word.max_x < 2 * geometry.divider_x)

\* a word above the first row boundary falls into no band and gets the last
\* row; its centre x is left of the divider although its right edge is not
C10_Witness ==
    /\ cl_pc = "done"
    /\ geometry = [divider_x |-> 2, row_ys |-> <<1, 3>>]
    /\ cl_words = <<[x |-> 0, max_x |-> 3, y |-> 0, max_y |-> 1]>>
    /\ cl_cells = <<[row |-> 1, is_label_col |-> TRUE,
                      x |-> 0, max_x |-> 3, y |-> 0, max_y |-> 1]>>

(***************************************************************************)
(* Claims about the label search of the heuristic path                     *)
(***************************************************************************)
\* the strict label form: one of Q, q, 0, O followed by digits only
IsStrictLabel(t) ==
    Len(t) >= 2 /\ t[1] \in {"Q", "q", "0", "O"} /\ AllDigits(Tail(t))

\* word i (1-based) of the input is among the recorded labels
Recorded(i) == \E k \in 1..Len(found_labels) : found_labels[k].word_index = i - 1

\* C9: find_all_question_labels records a word as a label if and only if the
\* word is not right of the left margin threshold (400), it has the strict
\* form (prefix Q, q, 0 or O and digits), and its number is at most 20.
C9_RecordsExactlyStrictLabels ==
    fl_pc = "done" =>
        \A i \in 1..Len(fl_words) :
            Recorded(i) <=>
                /\ fl_words[i].x <= 400
                /\ IsStrictLabel(fl_words[i].text)
                /\ IntOfDigits(Tail(fl_words[i].text)) <= 20

(***************************************************************************)
(* Claims about the segmentation of a page                                 *)
(***************************************************************************)
SegPaths == {"heuristic", "enhanced", "geometry"}

SegWordData == WordData(seg_tokens)

\* the label boundaries the heuristic and enhanced paths cut the page at
SegBoundaries ==
    find_all_question_labels(SegWordData,
                             ConfigGet(seg_config, "left_margin_threshold", 400),
                             ConfigGet(seg_config, "max_expected_question", 20))

SegCells == assign_words_to_cells(SegWordData, TemplateGeometry)

\* the spans the geometry path cuts the page into
SegSpans ==
    build_question_spans(
        extract_row_labels(SegCells, Len(SegCells),
                           ConfigGet(seg_config, "max_expected_question", 50)),
        Len(TemplateGeometry.row_ys))

\* the spans of the path taken, in page order
PathSpans == IF seg_pc = "geometry" THEN SegSpans ELSE SegBoundaries

\* the text of span n of the path taken when it is reconstructed as answer_type
PathSpanText(n, answer_type) ==
    IF seg_pc = "geometry"
    THEN GeometrySpanText(SegCells, SegSpans[n], answer_type)
    ELSE SpanText(SegWordData, SegBoundaries, n, answer_type)

\* the positions of the spans that carry the label of span n
SpansLabelled(label) == {m \in 1..Len(PathSpans) : PathSpans[m].label = label}

\* config question_types[number], else default_answer_type, else 'short'
DeclaredType(q_number) ==
    TypeGet(ConfigGet(seg_config, "question_types", <<>>), q_number,
            ConfigGet(seg_config, "default_answer_type", "short"))

\* C6: in every path, when one label starts two spans of a page, the answer
\* of the label is the text of the first span, a space, and the text of the
\* second span (an empty second span may leave the first text as it is).
C6_SecondOccurrenceAppended ==
    seg_pc \in SegPaths =>
        \A i, j \in 1..Len(PathSpans) :
            (i < j /\ SpansLabelled(PathSpans[i].label) = {i, j}) =>
                /\ DictHas(seg_answers, PathSpans[i].label)
                /\ \E t \in {"short", "long"} :
                       LET first == PathSpanText(i, t)
                           second == PathSpanText(j, t)
                           answer == DictGet(seg_answers, PathSpans[i].label)
                       IN  \/ answer = first \o <<" ">> \o second
                           \/ second = <<>> /\ answer = first

\* C7: in every path, the answer of a question is reconstructed by the long
\* algorithm if and only if the declared type of the question is 'long', and
\* by the short algorithm otherwise.
C7_AlgorithmFollowsDeclaredType ==
    seg_pc \in SegPaths =>
        \A n \in 1..Len(PathSpans) :
            SpansLabelled(PathSpans[n].label) = {n} =>
                /\ DictHas(seg_answers, PathSpans[n].label)
                /\ DictGet(seg_answers, PathSpans[n].label) =
                       PathSpanText(n, IF DeclaredType(PathSpans[n].q_number) = "long"
                                       THEN "long" ELSE "short")

(***************************************************************************)
(* Claims about answer reconstruction                                      *)
(***************************************************************************)
ReconTexts == [i \in 1..Len(rc_tokens) |-> rc_tokens[i].text]

\* the texts with seps[i] between text i and text i + 1
RECURSIVE Interleave(_, _)
Interleave(texts, seps) ==
    IF texts = <<>> THEN <<>>
    ELSE IF Len(texts) = 1 THEN texts[1]
    ELSE texts[1] \o seps[1] \o Interleave(Tail(texts), Tail(seps))

SingleSpaces(n) == [i \in 1..n |-> <<" ">>]

ParagraphBreak == <<"\n", "\n">>

\* C11: short-answer reconstruction of both paths returns the words in
\* reading order joined by single spaces, whatever rows they are on and
\* whatever breaks they carry: no newline, no two spaces in a row.
C11_ShortAnswerIsOneLine ==
    rc_pc \in {"short_heuristic", "short_geometry"} =>
        /\ rc_text = Interleave(ReconTexts, SingleSpaces(Len(rc_tokens)))
        /\ \A i \in 1..Len(rc_text) : rc_text[i] # "\n"
        /\ \A i \in 1..(Len(rc_text) - 1) : ~(rc_text[i] = " " /\ rc_text[i + 1] = " ")

\* three words on three rows, the middle one after a blank row
C11_Witness ==
    /\ rc_pc = "short_geometry"
    /\ Len(rc_tokens) = 3
    /\ rc_tokens[1].shape.break_type = "LINE_BREAK"
    /\ rc_tokens[2].shape.break_type = "EOL_SURE_SPACE"
    /\ ReconCells(rc_tokens)[1].row < ReconCells(rc_tokens)[2].row
    /\ ReconCells(rc_tokens)[2].row + 1 < ReconCells(rc_tokens)[3].row
    /\ rc_text = <<"a", " ", "a", " ", "a">>

\* the sheet row of word i of the answer
ReconRow(i) == ReconCells(rc_tokens)[i].row

\* what the rows of two successive words call for between them
RowSeparators ==
    [i \in 1..(Len(rc_tokens) - 1) |->
        IF ReconRow(i + 1) - ReconRow(i) > 1 THEN ParagraphBreak ELSE <<" ">>]

\* C12: geometry long-answer reconstruction joins the lines of consecutive
\* occupied rows by exactly one space and separates lines with one or more
\* blank rows between them by exactly one paragraph break (two newlines).
C12_BlankRowIsParagraphBreak ==
    rc_pc = "long_geometry" =>
        /\ \A i \in 1..(Len(rc_tokens) - 1) : ReconRow(i) <= ReconRow(i + 1)
        /\ rc_text = Interleave(ReconTexts, RowSeparators)

\* rows 0, 1 and 3 are occupied: a space, then a paragraph break
C12_Witness ==
    /\ rc_pc = "long_geometry"
    /\ Len(rc_tokens) = 3
    /\ ReconRow(1) = 0 /\ ReconRow(2) = 1 /\ ReconRow(3) = 3
    /\ rc_text = <<"a", " ", "a", "\n", "\n", "a">>

ReconWords == ReconWordData(rc_tokens)

\* the median of the heights of the words (the upper one of the two middle
\* heights when their number is even)
MedianLineHeight ==
    LET hs == SortInts([i \in 1..Len(ReconWords) |-> ReconWords[i].max_y - ReconWords[i].y])
    IN  hs[(Len(hs) \div 2) + 1]

\* the conditions under which a paragraph break may follow word i
MayBreakAfter(i) ==
    LET gap == ReconWords[i + 1].y - ReconWords[i].max_y
        margin == calculate_dominant_x_position(ReconWords)
        next_text == ReconWords[i + 1].text
        text == ReconWords[i].text
    IN  /\ ReconWords[i].break_type \in {"LINE_BREAK", "EOL_SURE_SPACE"}
        /\ \/ 2 * gap > 3 * MedianLineHeight
           \/ next_text[1] \in BULLET_MARKERS
           \/ gap > MedianLineHeight /\ text[Len(text)] \in {".", "!", "?", ":"}
           \/ /\ gap > MedianLineHeight
              /\ Abs(ReconWords[i + 1].x * margin.n - margin.sum) > 30 * margin.n

BelowThreshold(similarity) == 5 * similarity < mk_threshold

\* C14: calculate_marks returns 0 for every similarity below the threshold,
\* and of two similarities at or above the threshold the lower one never
\* gets the higher mark (same threshold, exponent and max_mark).
C14_MarkCurveMonotone ==
    mk_pc = "done" =>
        /\ BelowThreshold(mk_low) => mk_mark_low = 0
        /\ BelowThreshold(mk_high) => mk_mark_high = 0
        /\ ~BelowThreshold(mk_low) => mk_mark_low <= mk_mark_high

\* similarities 0.7 and 0.85 of a 3-mark short answer: 1.5 and 2.5 marks
C14_Witness ==
    /\ mk_pc = "done"
    /\ mk_threshold = 55
    /\ mk_max_mark = [num |-> 3, den |-> 1]
    /\ mk_low = 14 /\ mk_high = 17
    /\ mk_mark_low = 3 /\ mk_mark_high = 5

\* C15: for every similarity in [0, 1] and every max_mark > 0 the mark
\* returned by calculate_marks lies in [0, max_mark], also when max_mark is
\* the share total_marks / number_of_key_points of one key point.
C15_MarkWithinMaxMark ==
    mk_pc = "done" =>
        /\ 0 <= mk_mark_low /\ mk_mark_low * mk_max_mark.den <= 2 * mk_max_mark.num
        /\ 0 <= mk_mark_high /\ mk_mark_high * mk_max_mark.den <= 2 * mk_max_mark.num

(***************************************************************************)
(* Claims about long-answer valuation                                      *)
(***************************************************************************)
\* C16: the final long-answer score returned by advanced_long_valuation is
\* the maximum of the holistic mark and the point-by-point total: it is one
\* of the two and lower than neither.
C16_FinalIsMaximum ==
    lv_pc = "done" =>
        /\ lv_final \in {lv_holistic, lv_obtained}
        /\ lv_final >= lv_holistic
        /\ lv_final >= lv_obtained

\* the key points together earn more than the answer as a whole
C16_Witness ==
    /\ lv_pc = "done"
    /\ lv_total = 4
    /\ lv_key_points = 2
    /\ lv_holistic = 6
    /\ lv_obtained = 7
    /\ lv_final = 7

(***************************************************************************)
(* Claims about the evaluation of a student                                *)
(***************************************************************************)
EvalQNum(i) == normalize_question_key(ev_answers[i], FALSE)

\* the answers that were marked and belong to OR group g
GroupAnswers(g) ==
    {i \in 1..Len(ev_answers) :
        /\ IsEvaluated(ev_exam, ev_answers[i])
        /\ InOrGroup(ev_exam, ev_answers[i])
        /\ or_question_map(ev_exam.or_groups)[EvalQNum(i)] = g}

\* the marked answers of group g that are on a side of the pair
SideAnswers(g, side) ==
    {i \in GroupAnswers(g) :
        EvalQNum(i) \in SeqRange(IF side = "a" THEN ev_exam.or_groups[g].option_a
                                 ELSE ev_exam.or_groups[g].option_b)}

Breakdown(r) == ev_runs[r].marks_breakdown

\* the places in marks_breakdown of the answers of group g
GroupEntries(r, g) ==
    {k \in 1..Len(Breakdown(r)) : \E i \in GroupAnswers(g) : Breakdown(r)[k].key = ev_answers[i]}

RECURSIVE ScoreSum(_, _)
ScoreSum(r, I) ==
    IF I = {} THEN 0
    ELSE LET i == CHOOSE x \in I : TRUE IN ev_scores[r][i] + ScoreSum(r, I \ {i})

BreakdownSum(r, field) ==
    SumSeq([k \in 1..Len(Breakdown(r)) |-> Breakdown(r)[k][field]])

TotalsAreBreakdownSums(r) ==
    /\ ev_runs[r].total_marks_possible = BreakdownSum(r, "max_marks")
    /\ ev_runs[r].total_marks_obtained = BreakdownSum(r, "marks_obtained")

\* the entry at place k is the answer i with its mark and the marks of its question
EntryIsAnswer(r, k, i) ==
    /\ Breakdown(r)[k].key = ev_answers[i]
    /\ Breakdown(r)[k].marks_obtained = ev_scores[r][i]
    /\ Breakdown(r)[k].max_marks = ev_exam.question_marks[EvalQNum(i)]

\* C17: a 'single' OR group of which the student answered options ends with
\* exactly one entry in marks_breakdown, that of an answered option whose mark no
\* other answered option of the group exceeds, recorded as chosen_option, and
\* only it counts in the totals, in whatever order the answers are evaluated
C17_SingleAwardsHigherOption ==
    ev_pc = "done" =>
        \A r \in Runs : \A g \in 1..Len(ev_exam.or_groups) :
            (ev_exam.or_groups[g].type = "single" /\ GroupAnswers(g) # {}) =>
                /\ Cardinality(GroupEntries(r, g)) = 1
                /\ \E i \in GroupAnswers(g) :
                      LET k == CHOOSE k \in GroupEntries(r, g) : TRUE
                      IN  /\ EntryIsAnswer(r, k, i)
                          /\ Breakdown(r)[k].chosen_option = EvalQNum(i)
                          /\ \A j \in GroupAnswers(g) : ev_scores[r][j] <= ev_scores[r][i]
                /\ TotalsAreBreakdownSums(r)

\* C18: a 'pair' OR group keeps one side, whose marks summed over its answered
\* questions are not below the other side's sum: the entries of the group in
\* marks_breakdown are exactly the answered questions of that side, each with
\* chosen_pair naming the side, and nothing else of the group counts in the totals
C18_PairKeepsHigherSide ==
    ev_pc = "done" =>
        \A r \in Runs : \A g \in 1..Len(ev_exam.or_groups) :
            (ev_exam.or_groups[g].type = "pair" /\ GroupAnswers(g) # {}) =>
                /\ \E side \in {"a", "b"} :
                      LET other == IF side = "a" THEN "b" ELSE "a"
                      IN  /\ ScoreSum(r, SideAnswers(g, side))
                                >= ScoreSum(r, SideAnswers(g, other))
                          /\ Cardinality(GroupEntries(r, g))
                                = Cardinality(SideAnswers(g, side))
                          /\ \A k \in GroupEntries(r, g) :
                                /\ Breakdown(r)[k].chosen_pair = side
                                /\ \E i \in SideAnswers(g, side) : EntryIsAnswer(r, k, i)
                /\ TotalsAreBreakdownSums(r)

\* both sides of a pair were answered, side b got more and is the one kept
C18_Witness ==
    /\ ev_pc = "done"
    /\ ev_exam.or_groups = <<PairGroup(<< <<"1">>, <<"2">> >>, << <<"3">>, <<"4">> >>)>>
    /\ ev_answers = <<Q3, Q1, Q4>>
    /\ ev_scores[1] = <<1, 1, 1>>
    /\ Len(Breakdown(1)) = 2
    /\ \A k \in 1..2 : Breakdown(1)[k].chosen_pair = "b"
    /\ ev_runs[1].total_marks_obtained = 2

\* C19: when an evaluation returns, total_marks_possible is the sum of max_marks
\* and total_marks_obtained the sum of marks_obtained over the entries of
\* marks_breakdown, which holds at most one option of a 'single' group and
\* questions of at most one side of a 'pair' group
C19_TotalsMatchBreakdown ==
    ev_pc = "done" =>
        \A r \in Runs :
            /\ TotalsAreBreakdownSums(r)
            /\ \A g \in 1..Len(ev_exam.or_groups) :
                  IF ev_exam.or_groups[g].type = "single"
                  THEN Cardinality(GroupEntries(r, g)) <= 1
                  ELSE \E side \in {"a", "b"} : \A k \in GroupEntries(r, g) :
                          \E i \in SideAnswers(g, side) : Breakdown(r)[k].key = ev_answers[i]

\* a plain question, a 'single' group and a 'pair' group were all marked
C19_Witness ==
    /\ ev_pc = "done"
    /\ Len(ev_exam.or_groups) = 2
    /\ ev_answers = <<Q1, Q3, Q4>>
    /\ ev_scores[1] = <<1, 0, 1>>
    /\ \A q \in QuestionNumbers : ev_exam.question_marks[q] = 1
    /\ Len(Breakdown(1)) = 2
    /\ Breakdown(1)[1].or_type = "single"
    /\ Breakdown(1)[2].chosen_pair = "b"
    /\ ev_runs[1].total_marks_possible = 2
    /\ ev_runs[1].total_marks_obtained = 2

\* C20: two evaluations of one exam and one answer sheet that differ only in the
\* marks of the questions of OR groups report the same total_marks_possible
C20_PossibleIndependentOfChoice ==
    ev_pc = "done" => ev_runs[1].total_marks_possible = ev_runs[2].total_marks_possible

\* the answer at place i is for a question the teacher's key does not have
AbsentFromKey(i) ==
    \/ EvalQNum(i) \notin DOMAIN ev_exam.question_types
    \/ ev_answers[i] \notin ev_exam.teacher_answers

\* C21: when the evaluation returns, an answer whose question is absent from the
\* teacher's key has no entry in marks_breakdown and the totals are the sums over
\* the entries, so it adds nothing; every other answer outside the OR groups has
\* its entry with its mark
C21_AbsentQuestionSkipped ==
    ev_pc = "done" =>
        \A r \in Runs :
            /\ \A i \in 1..Len(ev_answers) :
                  AbsentFromKey(i) =>
                      \A k \in 1..Len(Breakdown(r)) : Breakdown(r)[k].key # ev_answers[i]
            /\ TotalsAreBreakdownSums(r)
            /\ \A i \in 1..Len(ev_answers) :
                  (~AbsentFromKey(i) /\ ~InOrGroup(ev_exam, ev_answers[i])) =>
                      \E k \in 1..Len(Breakdown(r)) : EntryIsAnswer(r, k, i)

\* Q9 is not a question of the exam and Q4 is: Q4 alone was marked
C21_Witness ==
    /\ ev_pc = "done"
    /\ ev_exam.or_groups = <<>>
    /\ ev_answers = <<Q9, Q4>>
    /\ Len(Breakdown(1)) = 1
    /\ Breakdown(1)[1].key = Q4
    /\ Breakdown(1)[1].marks_obtained = 1
    /\ ev_runs[1].total_marks_obtained = 1
    /\ ev_runs[1].total_marks_possible = ev_exam.question_marks[<<"4">>]

\* what an evaluation returns: marks_breakdown as the dict it is, and the totals
Returned(run) ==
    [marks_breakdown |-> SeqRange(run.marks_breakdown),
     total_marks_obtained |-> run.total_marks_obtained,
     total_marks_possible |-> run.total_marks_possible]

\* C30: an evaluation of the same answers with the same marks, listed in any
\* other order, returns the same marks_breakdown (chosen options included) and
\* the same totals
C30_OrderOfAnswersIrrelevant ==
    ev_pc = "done" =>
        \A order \in Orderings(1..Len(ev_answers)) :
            Returned(EvaluateAll(NewRun, ev_exam,
                                 [k \in 1..Len(ev_answers) |-> ev_answers[order[k]]],
                                 [k \in 1..Len(ev_answers) |-> ev_scores[1][order[k]]], 1))
                = Returned(ev_runs[1])

(***************************************************************************)
(* Further claims about the merger                                         *)
(***************************************************************************)
\* C27: when merge_multi_page_result has returned, every page of the list it was
\* given still holds the entries it had when the call began
C27_PagesUnchangedByMerge ==
    mpc = "done" => all_pages_list = input_pages

(***************************************************************************)
(* Further claims about the long-answer valuation                          *)
(***************************************************************************)
\* C28: smart_paragraph_split returns its chunks whatever the text: the
\* valuation never ends in the split with an exception
C28_SplitNeverRaises ==
    lv_pc # "raised"

(***************************************************************************)
(* Further claims about the heuristic path                                 *)
(***************************************************************************)
\* the word indexes [start_idx, end_idx) of the span of boundary i
FoundSpan(i) ==
    {k \in 0..Len(fl_words) :
        /\ SpanStart(fl_words, found_labels[i]) <= k
        /\ k < SpanEnd(fl_words, found_labels, i)}

\* C29: the spans segment_answers cuts the words into, one per found label, have
\* start_idx <= end_idx, follow one another in the order of the word indexes
\* and share no word index, whatever the order of the OCR words
C29_HeuristicSpansOrdered ==
    fl_pc = "done" =>
        /\ \A i \in 1..Len(found_labels) :
              SpanStart(fl_words, found_labels[i]) <= SpanEnd(fl_words, found_labels, i)
        /\ \A i \in 1..Len(found_labels) - 1 :
              found_labels[i].word_index < found_labels[i + 1].word_index
        /\ \A i, j \in 1..Len(found_labels) : i # j => FoundSpan(i) \cap FoundSpan(j) = {}


(***************************************************************************)
(* Claims about fallback and the sequence report of a page                 *)
(***************************************************************************)
\* C23: when the geometry path produces no answers on a page that has words,
\* the page's result is the one the heuristic path produces for these words.
C23_GeometryFallsBackToHeuristic ==
    (seg_pc = "geometry" /\ seg_tokens # <<>>
     /\ segment_answers_geometry(SegWordData, TemplateGeometry, seg_config) = <<>>)
    => seg_answers = segment_answers(SegWordData, seg_config)

\* the question numbers of the labels the path taken detected, in page order
DetectedNumbers == [i \in 1..Len(PathSpans) |-> PathSpans[i].q_number]

DetectedSet == {DetectedNumbers[i] : i \in 1..Len(DetectedNumbers)}

\* a number between two detected numbers was not detected
HasMissingNumber ==
    \E q \in 1..MaxQNum :
        /\ q \notin DetectedSet
        /\ \E lo, hi \in DetectedSet : lo < q /\ q < hi

\* a number was detected twice
HasDuplicateNumber ==
    \E i, j \in 1..Len(DetectedNumbers) : i # j /\ DetectedNumbers[i] = DetectedNumbers[j]

\* C24: whatever labels a path detects, every detected label has an answer
\* entry, and a missing number, a number detected twice and a writing order
\* that is not the sorted order are each reported by a flag and a warning.
C24_SequenceProblemsReported ==
    seg_pc \in SegPaths =>
        /\ \A i \in 1..Len(PathSpans) : DictHas(seg_answers, PathSpans[i].label)
        /\ HasMissingNumber =>
               /\ seg_validation.missing_questions # {}
               /\ "missing" \in seg_validation.warnings
        /\ HasDuplicateNumber =>
               /\ seg_validation.has_duplicates
               /\ "duplicate" \in seg_validation.warnings
        /\ OutOfOrder(DetectedNumbers) =>
               /\ seg_validation.out_of_order
               /\ "order" \in seg_validation.warnings

\* the same report on the two paths that call validate_question_sequence
C24_ReportedByValidation ==
    seg_pc \in {"heuristic", "enhanced"} => C24_SequenceProblemsReported

(***************************************************************************)
(* Claims about saving an answer key                                       *)
(***************************************************************************)
\* a marks string that is filled in and is malformed for question_count questions:
\* comma-separated with another count, or a part that is no positive number
MalformedMarks(marks_str, question_count) ==
    LET parts == SplitAt(Strip(marks_str), ",")
    IN  /\ marks_str # <<>>
        /\ \/ Len(parts) > 1 /\ Len(parts) # question_count
           \/ \E i \in 1..Len(parts) : ~IntValid(parts[i])
           \/ \E i \in 1..Len(parts) : IntValid(parts[i]) /\ IntValue(parts[i]) <= 0

\* the question ranges of the form are well-formed, so the counts are defined
RangesParsed ==
    ~QuestionsOf(ak_data.short_questions).raised
    /\ ~QuestionsOf(ak_data.long_questions).raised

ShortCount == Len(QuestionsOf(ak_data.short_questions).value)

LongCount == Len(QuestionsOf(ak_data.long_questions).value)

\* the marks string is rejected: parse_marks_string raises, the result is
\* 'Failed' with an error, and the store is the one before the call
MarksRejected(marks_str, question_count) ==
    /\ parse_marks_string(marks_str, question_count).raised
    /\ ak_result.status = "Failed"
    /\ ak_result.error # ""
    /\ ak_store = KeyStore

\* C22: a malformed marks string (another count than the questions, a
\* non-numeric or a non-positive value) makes parse_marks_string raise and
\* save_answer_key_util return 'Failed' with an error, the store unchanged.
C22_MalformedMarksRejected ==
    (ak_pc = "done" /\ RangesParsed) =>
        /\ MalformedMarks(ak_data.short_marks, ShortCount)
               => MarksRejected(ak_data.short_marks, ShortCount)
        /\ MalformedMarks(ak_data.long_marks, LongCount)
               => MarksRejected(ak_data.long_marks, LongCount)

\* the same for the marks strings of the sections that have questions
C22_RejectedWhereQuestions ==
    (ak_pc = "done" /\ RangesParsed) =>
        /\ (ShortCount > 0 /\ MalformedMarks(ak_data.short_marks, ShortCount))
               => MarksRejected(ak_data.short_marks, ShortCount)
        /\ (LongCount > 0 /\ MalformedMarks(ak_data.long_marks, LongCount))
               => MarksRejected(ak_data.long_marks, LongCount)

\* a failed save leaves the store as it was, a successful one adds one exam
C22_StoreOnlyOnSuccess ==
    ak_pc = "done" =>
        IF ak_result.status = "Success" THEN Len(ak_store) = Len(KeyStore) + 1
        ELSE ak_store = KeyStore

(***************************************************************************)
(* Claims about the answer-key file under concurrent callers               *)
(***************************************************************************)
\* the submission of roll_no in a file, <<>> when there is none
StoredSubmission(file, roll_no) ==
    IF roll_no \in DOMAIN file["E"] THEN <<file["E"][roll_no]>> ELSE <<>>

\* caller c returns Success in this step, from the operation op
ReturnsSuccess(c, op) ==
    /\ st_caller[c].pc = op
    /\ st_caller'[c].pc = "returned"
    /\ st_caller'[c].result.status = "Success"

\* C25: the file is updated by unguarded read-modify-write cycles: a call that
\* returns Success leaves every other student's submission as it was in the
\* copy the call loaded, whatever the file held when the call saved; so two
\* concurrent calls for different students can both succeed and one be lost.
C25_WholeFileWrittenBack ==
    [][\A c \in Callers : \A op \in {"save", "evaluate"} :
           ReturnsSuccess(c, op) =>
               \A r \in RollNos \ {st_caller[c].roll_no} :
                   StoredSubmission(st_file', r)
                       = StoredSubmission(st_caller[c].all_exam_data, r)]_vars

\* both callers saved a submission once, for different students, both returned
\* Success, and the file holds no submission of the first student
C25_Witness ==
    /\ \A c \in Callers :
           /\ st_caller[c].pc = "returned"
           /\ st_caller[c].op = "save"
           /\ st_caller[c].calls = 1
           /\ st_caller[c].result.status = "Success"
           /\ st_caller[c].roll_no = c
    /\ StoredSubmission(st_file, 1) = <<>>
    /\ StoredSubmission(st_file, 2) = <<PendingSubmission(st_caller[2].answers)>>

\* both callers evaluated once, different students, both returned Success, and
\* the first student's submission is still pending
C25_LostMarks ==
    /\ \A c \in Callers :
           /\ st_caller[c].pc = "returned"
           /\ st_caller[c].op = "evaluate"
           /\ st_caller[c].calls = 1
           /\ st_caller[c].result.status = "Success"
           /\ st_caller[c].roll_no = c
    /\ StoredSubmission(st_file, 1) = <<PendingSubmission(1)>>

ResultFields == {"marks_awarded", "total_marks_obtained", "percentage"}

\* a completed submission has its three result fields set
CompletedHasMarks ==
    \A r \in DOMAIN st_file["E"] :
        st_file["E"][r].valuation_status = "completed"
            => \A f \in ResultFields : st_file["E"][r][f] # None

\* what a returning call leaves in the file
ReturnLeaves(c) ==
    /\ ReturnsSuccess(c, "evaluate") =>
           LET before == st_caller[c].all_exam_data["E"][st_caller[c].roll_no]
               after == st_file'["E"][st_caller[c].roll_no]
               marks == st_caller'[c].result.total_marks_obtained
           IN  /\ after.valuation_status = "completed"
               /\ after.marks_awarded = marks
               /\ after.total_marks_obtained = marks
               /\ after.percentage = (marks * 100) \div MaxStoreMark
               /\ after.answers = before.answers
    /\ ReturnsSuccess(c, "save") =>
           LET after == st_file'["E"][st_caller[c].roll_no]
           IN  /\ after.valuation_status = "pending"
               /\ after.answers = st_caller[c].answers
               /\ \A f \in ResultFields : after[f] = None
    /\ (st_caller'[c] # st_caller[c] /\ st_caller'[c].result.status = "Failed")
           => st_file' = st_file

=============================================================================
